---- MODULE Spec2Model ----
(***************************************************************************)
(* Model of the random crystal generator of crystallography/crystal.py.    *)
(*                                                                         *)
(* Fractional coordinates are exact multiples of 1/Grid; lengths are in    *)
(* Angstrom, covalent radii in quarters of an Angstrom.  A lattice is kept *)
(* through the Gram matrix M.M^T of cell_matrix, the only way the packing   *)
(* loop reads it (np.dot(coords, lattice) followed by cdist), so that every *)
(* comparison of a distance with a tolerance is an integer comparison of    *)
(* squares.                                                                 *)
(*                                                                         *)
(* Python values: False is PyFalse, True is PyTrue, and 0 is 0, so that     *)
(* `x is False`, `x is 0` and `x is not False` keep their meaning for the   *)
(* Wyckoff index 0 and for the zero-freedom result of check_compatible.     *)
(***************************************************************************)
EXTENDS Integers, Sequences, FiniteSets, TLC

(***************************************************************************)
(* Bounds of the model and program constants                               *)
(***************************************************************************)
\* largest requested number of ions of one species (numIons0 entries)
MaxIons0 == 3
\* largest number of ions of the first species of a two-species request
MaxFirst == 2
\* largest attempt budget a caller passes to generate_crystal explicitly
MaxBudget == 2
\* largest numIons0 entry when check_compatible is explored on its own
MaxCompatIons == 8
\* the largest --attempts the driver is run with
MaxAttempts == 4
\* the number of states a random generator is started from
RngStates == 3
\* the largest maxattempts generate_lattice is called with
MaxLatticeAttempts == 2

\* resolution of the fractional coordinates: np.random.random(3) draws, op
\* translations (halves, thirds, quarters) and cluster centres are multiples of 1/Grid
Grid == 24

max1 == 30
max2 == 30
max3 == 30
\* budgets when check_compatible reports zero degrees of freedom
max_nofreedom == 5
\* tol_m = 1.0 Angstrom, in quarters of an Angstrom
tol_m == 4
\* default d_factor of check_distance
d_factor == 1

PyFalse == -1
PyTrue == 1
\* PBC=None
None == 0
\* PB=None (a layer group's PB is a triple of axes)
NoPB == <<>>
\* generate_lattice returning None
NoLattice == <<>>

(***************************************************************************)
(* Small helpers over sequences and integers                               *)
(***************************************************************************)
Abs(x) == IF x < 0 THEN -x ELSE x
Max2(a, b) == IF a >= b THEN a ELSE b
Min2(a, b) == IF a <= b THEN a ELSE b

RECURSIVE SumSeq(_)
SumSeq(s) == IF s = <<>> THEN 0 ELSE Head(s) + SumSeq(Tail(s))

RECURSIVE Concat(_)
\* flatten a sequence of sequences
Concat(ss) == IF ss = <<>> THEN <<>> ELSE Head(ss) \o Concat(Tail(ss))

InSeq(x, s) == \E i \in 1..Len(s) : s[i] = x

\* python list.remove(x): the first element equal to x goes
RemoveFirst(s, x) ==
    IF ~InSeq(x, s) THEN s
    ELSE LET k == CHOOSE i \in 1..Len(s) : s[i] = x /\ \A j \in 1..(i-1) : s[j] # x
         IN  SubSeq(s, 1, k-1) \o SubSeq(s, k+1, Len(s))

\* np.floor and np.round (half to even) of x/Grid, as integers
Floor(x) == x \div Grid
Round(x) ==
    LET f == x \div Grid
        r == x - f * Grid
    IN  IF 2 * r < Grid THEN f
        ELSE IF 2 * r > Grid THEN f + 1
        ELSE IF f % 2 = 0 THEN f ELSE f + 1

(***************************************************************************)
(* Symmetry operations (pymatgen SymmOp): rotation rows and translation    *)
(***************************************************************************)
Op(r1, r2, r3, t) == [rot |-> <<r1, r2, r3>>, tr |-> t]

Dot3(u, v) == u[1]*v[1] + u[2]*v[2] + u[3]*v[3]
VAdd(u, v) == <<u[1]+v[1], u[2]+v[2], u[3]+v[3]>>
VSub(u, v) == <<u[1]-v[1], u[2]-v[2], u[3]-v[3]>>
VScale(k, u) == <<k*u[1], k*u[2], k*u[3]>>

\* op.operate(point)
operate(op, p) == VAdd(<<Dot3(op.rot[1], p), Dot3(op.rot[2], p), Dot3(op.rot[3], p)>>, op.tr)

Col(m, j) == <<m[1][j], m[2][j], m[3][j]>>
MatMul(a, b) == [i \in 1..3 |-> [j \in 1..3 |-> Dot3(a[i], Col(b, j))]]
\* op1 * op2 (product of the affine matrices)
OpMul(a, b) == [rot |-> MatMul(a.rot, b.rot), tr |-> operate(a, b.tr)]

ZeroMatrix == <<<<0,0,0>>, <<0,0,0>>, <<0,0,0>>>>
\* np.allclose(op.rotation_matrix, np.zeros([3,3]))
IsZeroMatrix(m) == m = ZeroMatrix
\* op.rotation_matrix.all() != 0.0 : true when no entry of the matrix is zero
AllNonzero(m) == \A i \in 1..3 : \A j \in 1..3 : m[i][j] # 0

(***************************************************************************)
(* Symmetry tables: database/wyckoff_list.csv for the space groups the      *)
(* model generates in, written as SymmOp values (SymmOp.from_xyz_string).   *)
(* Index 1 is the general position; multiplicity falls along the list.      *)
(***************************************************************************)
X == <<1, 0, 0>>
Y == <<0, 1, 0>>
Z == <<0, 0, 1>>
mX == <<-1, 0, 0>>
mY == <<0, -1, 0>>
mZ == <<0, 0, -1>>
O3 == <<0, 0, 0>>
half == Grid \div 2
quarter == Grid \div 4
third == Grid \div 3

\* the operations of ops, repeated with each centring translation added
Centred(ops, cents) ==
    Concat([k \in 1..Len(cents) |->
              [i \in 1..Len(ops) |-> [ops[i] EXCEPT !.tr = VAdd(@, cents[k])]]])

\* the space groups of the model, by international number
SGs == {1, 2, 8, 43, 146, 197}

\* pymatgen sg_symbol_from_int_number
sg_symbol_from_int_number(g) ==
    CASE g = 1 -> <<"P", "1">>
      [] g = 2 -> <<"P", "-1">>
      [] g = 8 -> <<"C", "m">>
      [] g = 38 -> <<"A", "mm2">>
      [] g = 43 -> <<"F", "dd2">>
      [] g = 146 -> <<"R", "3">>
      [] g = 197 -> <<"I", "23">>

\* P1: 1a
WL_1 == << <<Op(X, Y, Z, O3)>> >>

\* P-1: 2i, then 1h .. 1a
WL_2 ==
    << <<Op(X, Y, Z, O3), Op(mX, mY, mZ, O3)>>,
       <<Op(O3, O3, O3, <<half, half, half>>)>>,
       <<Op(O3, O3, O3, <<0, half, half>>)>>,
       <<Op(O3, O3, O3, <<half, 0, half>>)>>,
       <<Op(O3, O3, O3, <<half, half, 0>>)>>,
       <<Op(O3, O3, O3, <<half, 0, 0>>)>>,
       <<Op(O3, O3, O3, <<0, half, 0>>)>>,
       <<Op(O3, O3, O3, <<0, 0, half>>)>>,
       <<Op(O3, O3, O3, <<0, 0, 0>>)>> >>

\* Cm: 4b, 2a
WL_8 ==
    << Centred(<<Op(X, Y, Z, O3), Op(X, mY, Z, O3)>>, <<O3, <<half, half, 0>>>>),
       Centred(<<Op(X, O3, Z, O3)>>, <<O3, <<half, half, 0>>>>) >>

F_centring == <<O3, <<0, half, half>>, <<half, 0, half>>, <<half, half, 0>>>>
\* Fdd2: 16b, 8a
WL_43 ==
    << Centred(<<Op(X, Y, Z, O3), Op(mX, mY, Z, O3),
                 Op(X, mY, Z, <<quarter, quarter, quarter>>),
                 Op(mX, Y, Z, <<quarter, quarter, quarter>>)>>, F_centring),
       Centred(<<Op(O3, O3, Z, O3), Op(O3, O3, Z, <<quarter, quarter, quarter>>)>>,
               F_centring) >>

R_centring == <<O3, <<2*third, third, third>>, <<third, 2*third, 2*third>>>>
\* R3 (hexagonal axes): 9b, 3a
WL_146 ==
    << Centred(<<Op(X, Y, Z, O3), Op(mY, <<1, -1, 0>>, Z, O3),
                 Op(<<-1, 1, 0>>, mX, Z, O3)>>, R_centring),
       Centred(<<Op(O3, O3, Z, O3)>>, R_centring) >>

I_centring == <<O3, <<half, half, half>>>>
\* I23: 24f, 12e, 12d, 8c, 6b, 2a
WL_197 ==
    << Centred(<<Op(X, Y, Z, O3), Op(mX, mY, Z, O3), Op(mX, Y, mZ, O3), Op(X, mY, mZ, O3),
                 Op(Z, X, Y, O3), Op(Z, mX, mY, O3), Op(mZ, mX, Y, O3), Op(mZ, X, mY, O3),
                 Op(Y, Z, X, O3), Op(mY, Z, mX, O3), Op(Y, mZ, mX, O3), Op(mY, mZ, X, O3)>>,
               I_centring),
       Centred(<<Op(X, O3, O3, <<0, half, 0>>), Op(mX, O3, O3, <<0, half, 0>>),
                 Op(O3, X, O3, <<0, 0, half>>), Op(O3, mX, O3, <<0, 0, half>>),
                 Op(O3, O3, X, <<half, 0, 0>>), Op(O3, O3, mX, <<half, 0, 0>>)>>,
               I_centring),
       Centred(<<Op(X, O3, O3, O3), Op(mX, O3, O3, O3),
                 Op(O3, X, O3, O3), Op(O3, mX, O3, O3),
                 Op(O3, O3, X, O3), Op(O3, O3, mX, O3)>>, I_centring),
       Centred(<<Op(X, X, X, O3), Op(mX, mX, X, O3), Op(mX, X, mX, O3), Op(X, mX, mX, O3)>>,
               I_centring),
       Centred(<<Op(O3, O3, O3, <<0, half, half>>), Op(O3, O3, O3, <<half, 0, half>>),
                 Op(O3, O3, O3, <<half, half, 0>>)>>, I_centring),
       Centred(<<Op(O3, O3, O3, O3)>>, I_centring) >>

\* eval(wyckoff_df["0"][sg]) with every string turned into a SymmOp
wyckoff_list(g) ==
    CASE g = 1 -> WL_1
      [] g = 2 -> WL_2
      [] g = 8 -> WL_8
      [] g = 43 -> WL_43
      [] g = 146 -> WL_146
      [] g = 197 -> WL_197

(***************************************************************************)
(* get_wyckoffs, cellsize                                                   *)
(***************************************************************************)
\* the layer-group filter of get_wyckoffs: the first operation keeps 1/2 on
\* the non-periodic axis PB[-1]
KeptByPB(wp, PB) ==
    LET axis == PB[3]
        coor == [i \in 1..3 |-> IF i = axis THEN half ELSE 0]
        coor1 == operate(wp[1], coor)
    IN  100 * Abs(coor1[axis] - half) < Grid

RECURSIVE FilterPB(_, _)
FilterPB(wps, PB) ==
    IF wps = <<>> THEN <<>>
    ELSE IF KeptByPB(Head(wps), PB) THEN <<Head(wps)>> \o FilterPB(Tail(wps), PB)
    ELSE FilterPB(Tail(wps), PB)

Organize_mut(wps, old, acc) == <<wps>>

RECURSIVE Organize(_, _, _)
\* the grouping loop of get_wyckoffs: a new sublist whenever the multiplicity changes
Organize(wps, old, acc) ==
    IF wps = <<>> THEN acc
    ELSE LET wp == Head(wps)
             acc1 == IF Len(wp) # old THEN Append(acc, <<>>) ELSE acc
         IN  Organize(Tail(wps), Len(wp),
                      [acc1 EXCEPT ![Len(acc1)] = Append(@, wp)])

get_wyckoffs(g, organized, PB) ==
    LET wyckoffs == IF PB # NoPB THEN FilterPB(wyckoff_list(g), PB) ELSE wyckoff_list(g)
    IN  IF organized THEN Organize(wyckoffs, Len(wyckoffs[1]), << <<>> >>)
        ELSE wyckoffs

cellsize_mut(g) ==
    LET letter == sg_symbol_from_int_number(g)[1]
    IN  IF letter = "P" THEN 1
        ELSE IF letter \in {"A", "C"} THEN 2
        ELSE IF letter \in {"R", "I"} THEN 3
        ELSE IF letter \in {"F"} THEN 4
        ELSE 0

\* the number of lattice points of the conventional cell, from the centring letter
cellsize(g) ==
    LET letter == sg_symbol_from_int_number(g)[1]
    IN  IF letter = "P" THEN 1
        ELSE IF letter \in {"A", "C", "I"} THEN 2
        ELSE IF letter \in {"R"} THEN 3
        ELSE IF letter \in {"F"} THEN 4
        ELSE 0

(***************************************************************************)
(* Lattice geometry                                                         *)
(***************************************************************************)
\* Element(specie).covalent_radius, in quarters of an Angstrom
covalent_radius(specie) ==
    CASE specie = "H" -> 1
      [] specie = "C" -> 3
      [] specie = "Na" -> 7

\* Euclidean_lattice
Euclidean_lattice == <<<<1,0,0>>, <<0,1,0>>, <<0,0,1>>>>

\* |v . M|^2 for a fractional vector v (in 1/Grid) : Grid^2 times the squared length
Norm2(v, lattice) ==
    Dot3(v, <<Dot3(lattice[1], v), Dot3(lattice[2], v), Dot3(lattice[3], v)>>)

create_matrix_mut(PBC) ==
    Concat([i \in 1..3 |-> Concat([j \in 1..3 |-> [k \in 1..3 |-> <<i - 2, j - 2, k - 2>>]])])

\* the image offsets, in the order of the three nested loops
create_matrix(PBC) ==
    LET i_list == IF PBC = 1 THEN <<0>> ELSE <<-1, 0, 1>>
        j_list == IF PBC = 2 THEN <<0>> ELSE <<-1, 0, 1>>
        k_list == IF PBC = 3 THEN <<0>> ELSE <<-1, 0, 1>>
    IN  Concat([i \in 1..Len(i_list) |->
          Concat([j \in 1..Len(j_list) |->
            [k \in 1..Len(k_list) |-> <<i_list[i], j_list[j], k_list[k]>>]])])

MinOf(S) == CHOOSE m \in S : \A n \in S : m <= n
MaxOf(S) == CHOOSE m \in S : \A n \in S : m >= n

\* xyz - np.round(xyz)
RoundOff(xyz) == <<xyz[1] - Grid * Round(xyz[1]), xyz[2] - Grid * Round(xyz[2]),
                   xyz[3] - Grid * Round(xyz[3])>>

\* np.min(cdist(np.dot(matrix + xyz, lattice), [[0,0,0]])), squared
MinNorm(xyz, matrix, lattice) ==
    MinOf({Norm2(VAdd(VScale(Grid, matrix[m]), xyz), lattice) : m \in 1..Len(matrix)})

\* distance(xyz, lattice, PBC), as Grid^2 times its square
distance(xyz, lattice, PBC) == MinNorm(RoundOff(xyz), create_matrix(PBC), lattice)

\* Grid * d_factor*0.5*(r1 + r2), in eighths of an Angstrom
PairTol(specie1, specie2, d_factor_) ==
    Grid * d_factor_ * (covalent_radius(specie1) + covalent_radius(specie2))

\* d < tol for a distance d given by Grid^2 d^2 = D and a tolerance given by
\* t = 8 Grid tol
Below(D, t) == 64 * D < t * t

\* every coordinate of coord2 in every image
Images(coord2, matrix) ==
    {VAdd(coord2[c], VScale(Grid, matrix[m])) : c \in 1..Len(coord2), m \in 1..Len(matrix)}

\* np.min(cdist(coord, coord2)), squared
d_min_between(coord, coord2s, lattice) ==
    MinOf({Norm2(VSub(coord[a], b), lattice) : a \in 1..Len(coord), b \in coord2s})

AllFar_mut(coord1, coord2s, specie1, specie2, lattice, d_factor_) == TRUE

\* the loop of check_distance over zip(coord1, specie1)
AllFar(coord1, coord2s, specie1, specie2, lattice, d_factor_) ==
    \A k \in 1..Min2(Len(coord1), Len(specie1)) :
        ~Below(d_min_between(coord1[k], coord2s, lattice),
               PairTol(specie1[k], specie2, d_factor_))

\* check_distance: only distances between an accumulated orbit and an image of
\* the new orbit are compared with the tolerance of the two species
check_distance(coord1, coord2, specie1, specie2, lattice, PBC, d_factor_) ==
    IF Len(coord1) > 0
    THEN AllFar(coord1, Images(coord2, create_matrix(PBC)), specie1, specie2, lattice,
                d_factor_)
    ELSE TRUE

(***************************************************************************)
(* Merging of close orbit points                                            *)
(***************************************************************************)
\* d <= tol for the merge tolerance tol = max(0.5*r, tol_m), kept in eighths
\* of an Angstrom
WithinTol(D, tol) == 64 * D <= (Grid * tol) * (Grid * tol)

\* d <= d_min + 1e-3 for two squared distances D >= Dmin
WithinMin(D, Dmin) ==
    \/ D = Dmin
    \/ /\ D - Dmin <= 40
       /\ 1000000 * (D - Dmin) * (D - Dmin) - 2 * Grid * Grid * (D - Dmin)
              < 4 * Grid * Grid * Dmin

\* every [i1, i2, dist] of the double loop of find_short_dist over i1 < i2
\* (indices from 1), in the order of the loop
all_pairs(coor, lattice) ==
    Concat([i1 \in 1..(Len(coor) - 1) |->
              [k \in 1..(Len(coor) - i1) |->
                 <<i1, i1 + k, distance(VSub(coor[i1], coor[i1 + k]), lattice, None)>>]])

\* if dist <= tol: pairs.append([i1, i2, dist])
close_pairs(pairs, tol) ==
    LET Close(pair) == WithinTol(pair[3], tol)
    IN  SelectSeq(pairs, Close)

\* pairs[pairs[:,-1] <= min(pairs[:,-1]) + 1e-3]
keep_shortest(pairs, Dmin) ==
    LET Short(pair) == WithinMin(pair[3], Dmin)
    IN  SelectSeq(pairs, Short)

\* the other end of each pair of a list of pairs that all hold i
other_ends(i, mine) ==
    [k \in 1..Len(mine) |-> IF mine[k][1] = i THEN mine[k][2] ELSE mine[k][1]]

\* graph[pair0].append(pair1); graph[pair1].append(pair0), pair by pair
build_graph(n, pairs) ==
    [i \in 1..n |->
        LET Mine(pair) == pair[1] = i \/ pair[2] = i
        IN  other_ends(i, SelectSeq(pairs, Mine))]

fsd_result(n, pairs) ==
    [pairs |-> pairs, graph |-> build_graph(n, pairs)]

fsd_select(n, pairs) ==
    IF Len(pairs) > 0
    THEN fsd_result(n, keep_shortest(pairs, MinOf({pairs[k][3] : k \in 1..Len(pairs)})))
    ELSE fsd_result(n, <<>>)

\* find_short_dist: the pairs within tol that are within 1e-3 of the closest
\* pair, and the adjacency lists they make.  pairs[sequence] is read as the
\* boolean mask it was written as.
find_short_dist(coor, lattice, tol) ==
    fsd_select(Len(coor), close_pairs(all_pairs(coor, lattice), tol))

RECURSIVE add_neighbors(_, _, _, _)
\* add_neighbors(el, seen): depth-first, neighbours of el from position k on
add_neighbors(graph, el, k, seen) ==
    IF k > Len(graph[el]) THEN seen
    ELSE IF ~InSeq(graph[el][k], seen)
         THEN add_neighbors(graph, el, k + 1,
                            add_neighbors(graph, graph[el][k], 1, Append(seen, graph[el][k])))
         ELSE add_neighbors(graph, el, k + 1, seen)

RECURSIVE RemoveAll(_, _)
RemoveAll(s, xs) == IF xs = <<>> THEN s ELSE RemoveAll(RemoveFirst(s, Head(xs)), Tail(xs))

RECURSIVE cc_loop(_, _, _)
RECURSIVE cc_found(_, _, _, _)
\* sets[i] receives the component; its indices leave unseen
cc_found(graph, unseen, comp, sets) ==
    cc_loop(graph, RemoveAll(unseen, comp), Append(sets, comp))

\* while unseen != []: x = unseen.pop() ...
cc_loop(graph, unseen, sets) ==
    IF unseen = <<>> THEN sets
    ELSE cc_found(graph, SubSeq(unseen, 1, Len(unseen) - 1),
                  add_neighbors(graph, unseen[Len(unseen)], 1, <<unseen[Len(unseen)]>>),
                  sets)

connected_components_mut(graph) == [i \in 1..Len(graph) |-> <<Len(graph) + 1 - i>>]

\* connected_components(graph): the components in the order the loop finds
\* them (unseen.pop() takes the last index first)
connected_components(graph) ==
    cc_loop(graph, [i \in 1..Len(graph) |-> i], <<>>)

RECURSIVE norms(_, _, _, _, _)
\* cdist(np.dot(matrix0 + diff, lattice), [[0,0,0]]), squared, image by image
norms(diff, matrix0, lattice, m, dists) ==
    IF m > Len(matrix0) THEN dists
    ELSE norms(diff, matrix0, lattice, m + 1,
               Append(dists, Norm2(VAdd(VScale(Grid, matrix0[m]), diff), lattice)))

\* np.argmin: the first position of the least value
ArgMin(dists) ==
    CHOOSE m \in 1..Len(dists) :
        \A j \in 1..Len(dists) : dists[m] < dists[j] \/ (dists[m] = dists[j] /\ m <= j)

\* if np.min(dists) < dist_min: dist_min, matrix_min = ...
gc_closer(st, matrix0, dists, arg) ==
    IF dists[arg] < st.dist_min
    THEN [dist_min |-> dists[arg], matrix_min |-> <<matrix0[arg]>>]
    ELSE st

gc_compare(st, matrix0, dists) == gc_closer(st, matrix0, dists, ArgMin(dists))

RECURSIVE gc_inner(_, _, _, _, _, _)
\* the loop over atom2 of get_center
gc_inner(xyzs, lattice, matrix0, atom1, atom2, st) ==
    IF atom2 >= atom1 THEN st
    ELSE gc_inner(xyzs, lattice, matrix0, atom1, atom2 + 1,
             gc_compare(st, matrix0,
                        norms(VSub(xyzs[atom1], xyzs[atom2]), matrix0, lattice, 1, <<>>)))

RECURSIVE gc_outer(_, _, _, _, _)
RECURSIVE gc_shift(_, _, _, _, _)
\* xyzs[atom1] += matrix_min; matrix_min is <<>> while it was never assigned
gc_shift(xyzs, lattice, matrix0, atom1, st) ==
    IF st.matrix_min = <<>> THEN [exc |-> "UnboundLocalError", xyzs |-> xyzs]
    ELSE gc_outer([xyzs EXCEPT ![atom1] = VAdd(@, VScale(Grid, st.matrix_min[1]))],
                  lattice, matrix0, atom1 + 1, st.matrix_min)

\* the loop over atom1 of get_center; dist_min starts at 10.0 Angstrom
gc_outer(xyzs, lattice, matrix0, atom1, matrix_min) ==
    IF atom1 > Len(xyzs) THEN [exc |-> "", xyzs |-> xyzs]
    ELSE gc_shift(xyzs, lattice, matrix0, atom1,
                  gc_inner(xyzs, lattice, matrix0, atom1, 1,
                           [dist_min |-> 100 * Grid * Grid, matrix_min |-> matrix_min]))

RECURSIVE RoundOffAll(_)
RoundOffAll(xyzs) ==
    IF xyzs = <<>> THEN <<>> ELSE <<RoundOff(Head(xyzs))>> \o RoundOffAll(Tail(xyzs))

\* xyzs.mean(0), kept on the grid
Mean(xyzs) ==
    [i \in 1..3 |-> SumSeq([a \in 1..Len(xyzs) |-> xyzs[a][i]]) \div Len(xyzs)]

\* the mean is a grid point
ExactMean(xyzs) ==
    \A i \in 1..3 : SumSeq([a \in 1..Len(xyzs) |-> xyzs[a][i]]) % Len(xyzs) = 0

\* if abs(center[PBC-1]) < 1e-4: center[PBC-1] = 0.5 ; a TypeError when PBC is None
gc_pbc(center, exact, PBC) ==
    IF PBC = None THEN [exc |-> "TypeError", center |-> center, exact |-> exact]
    ELSE [exc |-> "",
          center |-> IF 10000 * Abs(center[PBC]) < Grid
                     THEN [center EXCEPT ![PBC] = half] ELSE center,
          exact |-> exact]

gc_mean(moved, PBC) ==
    IF moved.exc # "" THEN [exc |-> moved.exc, center |-> O3, exact |-> TRUE]
    ELSE gc_pbc(Mean(moved.xyzs), ExactMean(moved.xyzs), PBC)

\* get_center(xyzs, lattice, PBC): the centre of a cluster, or the exception
\* the call ends with
get_center(xyzs, lattice, PBC) ==
    gc_mean(gc_outer(RoundOffAll(xyzs), lattice, create_matrix(PBC), 2, <<>>), PBC)

(***************************************************************************)
(* Site symmetry and recognition of a Wyckoff position                      *)
(***************************************************************************)
\* are_equal(op1, op2, allow_pbc=True): equal rotations, translations equal
\* up to an integer vector
are_equal(op1, op2) ==
    /\ op1.rot = op2.rot
    /\ \A i \in 1..3 : (op1.tr[i] - op2.tr[i]) % Grid = 0

\* SymmOp((op*point).affine_matrix - point.affine_matrix)
OpDiff(product, point) ==
    [rot |-> <<VSub(product.rot[1], point.rot[1]), VSub(product.rot[2], point.rot[2]),
               VSub(product.rot[3], point.rot[3])>>,
     tr |-> VSub(product.tr, point.tr)]

RoundVec(v) == <<Round(v[1]), Round(v[2]), Round(v[3])>>

\* one operation of gen_pos: kept, with its translation corrected, when it
\* leaves the rotation alone and displaces the point by less than tol = 1e-3
site_symm_op(op, difference, symmetry) ==
    IF /\ IsZeroMatrix(difference.rot)
       /\ ~(distance(difference.tr, Euclidean_lattice, None) > (Grid * Grid) \div 1000000)
    THEN Append(symmetry,
                [rot |-> op.rot, tr |-> VSub(op.tr, VScale(Grid, RoundVec(difference.tr)))])
    ELSE symmetry

RECURSIVE site_symm_loop(_, _, _, _)
site_symm_loop(point, gen_pos, k, symmetry) ==
    IF k > Len(gen_pos) THEN symmetry
    ELSE site_symm_loop(point, gen_pos, k + 1,
             site_symm_op(gen_pos[k], OpDiff(OpMul(gen_pos[k], point), point), symmetry))

\* site_symm(point, gen_pos) for a point given as a SymmOp
site_symm(point, gen_pos) == site_symm_loop(point, gen_pos, 1, <<>>)

\* a coordinate turned into a SymmOp (zero rotation)
PointOp(p) == [rot |-> ZeroMatrix, tr |-> p]

RECURSIVE SymmOfOps(_, _, _, _)
SymmOfOps(wp, gen_pos, k, acc) ==
    IF k > Len(wp) THEN acc
    ELSE SymmOfOps(wp, gen_pos, k + 1, Append(acc, site_symm(wp[k], gen_pos)))

RECURSIVE SymmOfList(_, _, _)
SymmOfList(wl, i, acc) ==
    IF i > Len(wl) THEN acc
    ELSE SymmOfList(wl, i + 1, Append(acc, SymmOfOps(wl[i], wl[1], 1, <<>>)))

\* the site symmetry of every point of every Wyckoff position of a list
WyckoffSymmetry(wl) == SymmOfList(wl, 1, <<>>)

WS_1 == WyckoffSymmetry(WL_1)
WS_2 == WyckoffSymmetry(WL_2)
WS_8 == WyckoffSymmetry(WL_8)
WS_43 == WyckoffSymmetry(WL_43)
WS_146 == WyckoffSymmetry(WL_146)
WS_197 == WyckoffSymmetry(WL_197)

\* get_wyckoff_symmetry(sg): database/wyckoff_symmetry.csv
get_wyckoff_symmetry(g) ==
    CASE g = 1 -> WS_1
      [] g = 2 -> WS_2
      [] g = 8 -> WS_8
      [] g = 43 -> WS_43
      [] g = 146 -> WS_146
      [] g = 197 -> WS_197

\* every operation of w equals one of p up to an integer translation
\* (temp2 == [] after the two loops over op_p and op_w)
Covers(p, w) ==
    \A a \in 1..Len(w) : \E b \in 1..Len(p) : are_equal(w[a], p[b])

RECURSIVE match_w(_, _, _)
\* `for w in temp` with temp.remove(w) inside: the list iterator moves on by
\* position, remove() takes the first equal element
match_w(p, temp, idx) ==
    IF idx > Len(temp) THEN temp
    ELSE IF Covers(p, temp[idx]) THEN match_w(p, RemoveFirst(temp, temp[idx]), idx + 1)
    ELSE match_w(p, temp, idx + 1)

RECURSIVE match_p(_, _, _)
match_p(p_symm, k, temp) ==
    IF k > Len(p_symm) THEN temp
    ELSE match_p(p_symm, k + 1, match_w(p_symm[k], temp, 1))

RECURSIVE point_symm(_, _, _, _)
\* p_symm.append(site_symm(x, gen_pos)) for x in points, each x - floor(x)
point_symm(points, gen_pos, k, p_symm) ==
    IF k > Len(points) THEN p_symm
    ELSE point_symm(points, gen_pos, k + 1,
             Append(p_symm,
                    site_symm(PointOp(<<points[k][1] - Grid * Floor(points[k][1]),
                                        points[k][2] - Grid * Floor(points[k][2]),
                                        points[k][3] - Grid * Floor(points[k][3])>>),
                              gen_pos)))

\* the end of check_wyckoff_position: no match, one match, or several
\* (line 1104 then reads the undefined name `generators`)
cwp_result(possible) ==
    IF Cardinality(possible) = 0 THEN [exc |-> "", index |-> PyFalse]
    ELSE IF Cardinality(possible) = 1
         THEN [exc |-> "", index |-> (CHOOSE i \in possible : TRUE) - 1]
    ELSE [exc |-> "NameError", index |-> PyFalse]

cwp_possible(p_symm, w_symm_all) ==
    {i \in 1..Len(w_symm_all) :
        /\ Len(p_symm) = Len(w_symm_all[i])
        /\ match_p(p_symm, 1, w_symm_all[i]) = <<>>}

\* check_wyckoff_position(points, sg, exact_translation=False): the index
\* (from 0) of the matching position, PyFalse, or the exception raised
check_wyckoff_position(points, g) ==
    cwp_result(cwp_possible(point_symm(points, get_wyckoffs(g, FALSE, NoPB)[1], 1, <<>>),
                            get_wyckoff_symmetry(g)))

RECURSIVE centers_of(_, _, _, _, _, _)
\* merged.append(get_center(coor[group], lattice, PBC)) for group in groups
centers_of(coor, groups, lattice, PBC, k, centers) ==
    IF k > Len(groups) THEN centers
    ELSE centers_of(coor, groups, lattice, PBC, k + 1,
             Append(centers,
                    get_center([a \in 1..Len(groups[k]) |-> coor[groups[k][a]]],
                               lattice, PBC)))

first_exc(rs) ==
    IF \E k \in 1..Len(rs) : rs[k].exc # ""
    THEN rs[CHOOSE k \in 1..Len(rs) : rs[k].exc # "" /\ \A j \in 1..(k-1) : rs[j].exc = ""].exc
    ELSE ""

Raised(e, coor) == [exc |-> e, coor |-> coor, index |-> PyFalse]
Returned(coor, index) == [exc |-> "", coor |-> coor, index |-> index]

\* return coor, index with index = check_wyckoff_position(coor, ...)
merge_return(coor, cw) ==
    IF cw.exc # "" THEN Raised(cw.exc, coor) ELSE Returned(coor, cw.index)

RECURSIVE merge_coordinate(_, _, _, _, _, _)
RECURSIVE merge_checked(_, _, _, _, _, _, _, _)
RECURSIVE merge_centers(_, _, _, _, _, _, _)
RECURSIVE merge_pairs(_, _, _, _, _, _, _)

merge_checked_mut(coor, merged, cw, lattice, wyckoff, g, tol, PBC) ==
    merge_return(merged, cw)

\* index = check_wyckoff_position(merged, ...): False ends the merge, any
\* other index makes merged the orbit and the loop goes round again
merge_checked(coor, merged, cw, lattice, wyckoff, g, tol, PBC) ==
    IF cw.exc # "" THEN Raised(cw.exc, coor)
    ELSE IF cw.index = PyFalse THEN Returned(coor, PyFalse)
    ELSE merge_coordinate(merged, lattice, wyckoff, g, tol, PBC)

merge_centers(coor, centers, lattice, wyckoff, g, tol, PBC) ==
    IF first_exc(centers) # "" THEN Raised(first_exc(centers), coor)
    ELSE merge_checked(coor, [k \in 1..Len(centers) |-> centers[k].center],
                       check_wyckoff_position([k \in 1..Len(centers) |-> centers[k].center], g),
                       lattice, wyckoff, g, tol, PBC)

\* one round of the loop of merge_coordinate, given find_short_dist's result
merge_pairs(coor, fs, lattice, wyckoff, g, tol, PBC) ==
    IF Len(fs.pairs) > 0
    THEN IF Len(coor) > Len(wyckoff[Len(wyckoff)][1])
         THEN merge_centers(coor,
                  centers_of(coor, connected_components(fs.graph), lattice, PBC, 1, <<>>),
                  lattice, wyckoff, g, tol, PBC)
         ELSE Returned(coor, PyFalse)
    ELSE merge_return(coor, check_wyckoff_position(coor, g))

\* merge_coordinate: clusters of close points are replaced by their centres
\* until no two points are within tol; [exc, coor, index]
merge_coordinate(coor, lattice, wyckoff, g, tol, PBC) ==
    merge_pairs(coor, find_short_dist(coor, lattice, tol), lattice, wyckoff, g, tol, PBC)

\* one iteration of the loop of merge_coordinate: again = TRUE when it ends
\* with coor = merged, res the new orbit; otherwise res is what the call
\* returns or raises
merge_round_checked(coor, merged, cw) ==
    IF cw.exc = "" /\ cw.index # PyFalse
    THEN [again |-> TRUE, res |-> Returned(merged, cw.index)]
    ELSE [again |-> FALSE,
          res |-> IF cw.exc # "" THEN Raised(cw.exc, coor) ELSE Returned(coor, PyFalse)]

merge_round_centers(coor, centers, g) ==
    IF first_exc(centers) # ""
    THEN [again |-> FALSE, res |-> Raised(first_exc(centers), coor)]
    ELSE merge_round_checked(coor, [k \in 1..Len(centers) |-> centers[k].center],
             check_wyckoff_position([k \in 1..Len(centers) |-> centers[k].center], g))

merge_round_mut(coor, fs, lattice, wyckoff, g, PBC) ==
    IF Len(fs.pairs) > 0
    THEN merge_round_centers(coor,
             centers_of(coor, connected_components(fs.graph), lattice, PBC, 1, <<>>), g)
    ELSE [again |-> FALSE, res |-> merge_return(coor, check_wyckoff_position(coor, g))]

merge_round(coor, fs, lattice, wyckoff, g, PBC) ==
    IF Len(fs.pairs) > 0
    THEN IF Len(coor) > Len(wyckoff[Len(wyckoff)][1])
         THEN merge_round_centers(coor,
                  centers_of(coor, connected_components(fs.graph), lattice, PBC, 1, <<>>), g)
         ELSE [again |-> FALSE, res |-> Returned(coor, PyFalse)]
    ELSE [again |-> FALSE, res |-> merge_return(coor, check_wyckoff_position(coor, g))]

(***************************************************************************)
(* choose_wyckoff, estimate_volume, generate_lattice                        *)
(***************************************************************************)
Flatten(wyckoffs) == Concat(wyckoffs)

Fits_mut(wyckoff, number) == Len(wyckoff[1]) <= number + 1

\* len(wyckoff[0]) <= number
Fits(wyckoff, number) == Len(wyckoff[1]) <= number

choose_wyckoff_mut(wyckoffs, number, high) ==
    UNION {{wyckoffs[k][i] : i \in 1..Len(wyckoffs[k])} : k \in 1..Len(wyckoffs)}

\* choose_wyckoff(wyckoffs, number): the positions choose() can return; the
\* empty set stands for the return value False.  high is rand(0,1) > 0.5
choose_wyckoff(wyckoffs, number, high) ==
    LET fit == {k \in 1..Len(wyckoffs) : Fits(wyckoffs[k], number)}
        first == CHOOSE k \in fit : \A j \in fit : k <= j
    IN  IF fit = {} THEN {}
        ELSE IF high THEN {wyckoffs[first][i] : i \in 1..Len(wyckoffs[first])}
        ELSE UNION {{wyckoffs[k][i] : i \in 1..Len(wyckoffs[k])} : k \in fit}

\* estimate_volume, in units of (4/3) pi / 64 cubic Angstrom
estimate_volume(numIons_, species_, factor) ==
    factor * SumSeq([i \in 1..Min2(Len(numIons_), Len(species_)) |->
                        numIons_[i] * covalent_radius(species_[i])
                            * covalent_radius(species_[i]) * covalent_radius(species_[i])])

Diag(a, b, c) == <<<<a, 0, 0>>, <<0, b, 0>>, <<0, 0, c>>>>

\* cells of each crystal family (Gram matrices in square Angstrom) that stand
\* for the draws of generate_lattice
FamilyLattices(g) ==
    IF g <= 2 THEN {<<<<16, 2, 0>>, <<2, 16, 0>>, <<0, 0, 16>>>>}
    ELSE IF g <= 15 THEN {<<<<16, 0, -2>>, <<0, 16, 0>>, <<-2, 0, 25>>>>}
    ELSE IF g <= 74 THEN {Diag(4, 4, 4), Diag(36, 49, 64)}
    ELSE IF g <= 142 THEN {Diag(16, 16, 25)}
    ELSE IF g <= 194 THEN {<<<<16, -8, 0>>, <<-8, 16, 0>>, <<0, 0, 25>>>>}
    ELSE {Diag(16, 16, 16)}

\* generate_lattice(sg, volume, minvec): a cell of the family with every
\* axis longer than minvec (quarters of an Angstrom), or None after
\* maxattempts failed draws.  The volume constraint is not modelled.
generate_lattice(g, volume_, minvec) ==
    {NoLattice} \cup {L \in FamilyLattices(g) : \A i \in 1..3 : 16 * L[i][i] > minvec * minvec}

(***************************************************************************)
(* check_compatible                                                         *)
(***************************************************************************)
RECURSIVE cc_greedy_mut(_, _, _)
cc_greedy_mut(wps, i, st) ==
    IF i > Len(wps) THEN st
    ELSE IF st.remaining >= Len(wps[i])
         THEN cc_greedy_mut(wps, i + 1,
                  [st EXCEPT !.remaining = @ % Len(wps[i]),
                             !.used = @ \o [j \in 1..(st.remaining \div Len(wps[i])) |-> wps[i]]])
         ELSE cc_greedy_mut(wps, i + 1, st)

RECURSIVE cc_greedy(_, _, _)
\* the loops over self.wyckoffs for one species: st = [remaining, removed,
\* has_freedom, used]
cc_greedy(wps, i, st) ==
    IF i > Len(wps) THEN st
    ELSE LET wp == wps[i]
         IN  IF st.remaining >= Len(wp) /\ ~InSeq(wp, st.removed)
             THEN IF IsZeroMatrix(wp[1].rot)
                  THEN cc_greedy(wps, i + 1,
                          [st EXCEPT !.remaining = @ - Len(wp),
                                     !.removed = Append(@, wp),
                                     !.used = Append(@, wp)])
                  ELSE cc_greedy(wps, i + 1,
                          [st EXCEPT !.remaining = @ % Len(wp),
                                     !.has_freedom = TRUE,
                                     !.used = @ \o [j \in 1..(st.remaining \div Len(wp)) |-> wp]])
             ELSE cc_greedy(wps, i + 1, st)

RECURSIVE cc_species(_, _, _, _)
cc_species(wyckoffs, numIons_, k, st) ==
    LET N_last == Len(wyckoffs[Len(wyckoffs)][1])
        lastgroup == wyckoffs[Len(wyckoffs)]
        op == lastgroup[Len(lastgroup)][1]
        after == cc_greedy(Flatten(wyckoffs), 1, [st EXCEPT !.remaining = numIons_[k]])
    IN  IF k > Len(numIons_)
        THEN [result |-> IF st.has_freedom THEN PyTrue ELSE 0, used |-> st.used]
        ELSE IF numIons_[k] % N_last > 0 THEN [result |-> PyFalse, used |-> st.used]
        ELSE IF AllNonzero(op.rot)
             THEN cc_species(wyckoffs, numIons_, k + 1, [st EXCEPT !.has_freedom = TRUE])
        ELSE IF after.remaining # 0 THEN [result |-> PyFalse, used |-> after.used]
        ELSE cc_species(wyckoffs, numIons_, k + 1, after)

\* check_compatible: PyFalse, PyTrue or 0, and the positions the subtraction used
check_compatible(wyckoffs, numIons_) ==
    cc_species(wyckoffs, numIons_, 1,
               [remaining |-> 0, removed |-> <<>>, has_freedom |-> FALSE, used |-> <<>>])

is_False_mut(x) == FALSE

\* `degrees is False`
is_False(x) == x = PyFalse

is_0_mut(x) == FALSE

\* `degrees is 0`
is_0(x) == x = 0

wrap_mut(coords_) == coords_

\* coords_toadd -= np.floor(coords_toadd)
wrap(coords_) ==
    [k \in 1..Len(coords_) |-> [i \in 1..3 |-> coords_[k][i] - Grid * Floor(coords_[k][i])]]

(***************************************************************************)
(* random_crystal: the state of one object and of its construction          *)
(***************************************************************************)
VARIABLES
    sg, species, numIons0,     \* the request
    args,                      \* max1, max2, max3 as generate_crystal receives them
    pc,                        \* position in __init__ / generate_crystal
    numIons, volume, degrees,
    budgets,                   \* max1, max2, max3 after the zero-freedom test
    cycle1, cycle2, cycle3,
    sp,                        \* position of the loop over zip(numIons, species)
    numIon_added,
    cell_matrix,
    coordinates_total, sites_total, coordinates_tmp, sites_tmp,
    good_structure,
    valid, struct, coordinates, sites,
    exc,                       \* the exception that left generate_crystal, if any
    msg1_printed,              \* number of times Msg1 was printed
    lattice_sampled,           \* generate_lattice has been called
    wyckoff_chosen,            \* choose_wyckoff has been called
    last,                      \* what the latest inner attempt did
    merge_in, merge_first, merge_second,  \* merge_coordinate called on its own
    merge_coor, merge_before,  \* coor inside the loop of merge_coordinate, and its
                               \* length before the latest replacement
    main,                      \* the names of the command-line driver
    rng,                       \* the random generators of two runs, and their draws
    lat,                       \* generate_lattice called on its own
    ori,                       \* an orientation object and its caller
    cwp,                       \* check_wyckoff_position called on its own
    c2d,                       \* the packing loop of random_crystal_2D
    oa,                        \* an OperationAnalyzer object
    helper                     \* a call of a module-level helper and what it returned

vars == <<sg, species, numIons0, args, pc, numIons, volume, degrees, budgets,
          cycle1, cycle2, cycle3, sp, numIon_added, cell_matrix,
          coordinates_total, sites_total, coordinates_tmp, sites_tmp,
          good_structure, valid, struct, coordinates, sites, exc,
          msg1_printed, lattice_sampled, wyckoff_chosen, last,
          merge_in, merge_first, merge_second, merge_coor, merge_before, main, rng, lat, ori,
          cwp, c2d, oa, helper>>

\* an attribute or local not assigned yet
Unset == -2

\* self.wyckoffs = get_wyckoffs(self.sg, organized=True)
wyckoffs == get_wyckoffs(sg, TRUE, NoPB)

SpeciesLists == {<<"H">>, <<"Na">>, <<"H", "Na">>}

\* the numIons lists of a given length: one entry up to n, or a first entry up
\* to m and a second up to n
Counts(len, m, n) ==
    IF len = 1 THEN {<<a>> : a \in 0..n} ELSE {<<a, b>> : a \in 0..m, b \in 0..n}

\* the volume factor the callers pass
factor == 2

\* budgets a caller passes explicitly, and the defaults of the signature
ArgChoices == {<<b, b, b>> : b \in 1..MaxBudget} \cup {<<max1, max2, max3>>}

\* the values of np.random.random(3) the model draws
Seeds == {<<1, 0, 0>>, <<4, 0, 0>>, <<8, 3, 5>>}

NoAttempt == [outcome |-> "none", fixed |-> FALSE, dup |-> FALSE, wrapped |-> FALSE]
NoMerge == [exc |-> "", coor |-> <<>>, index |-> PyFalse]

\* nothing computed yet
Blank ==
    /\ numIons = <<>> /\ volume = Unset /\ degrees = Unset
    /\ budgets = <<max1, max2, max3>>
    /\ cycle1 = 0 /\ cycle2 = 0 /\ cycle3 = 0 /\ sp = 0 /\ numIon_added = 0
    /\ cell_matrix = NoLattice
    /\ coordinates_total = <<>> /\ sites_total = <<>>
    /\ coordinates_tmp = <<>> /\ sites_tmp = <<>>
    /\ good_structure = FALSE
    /\ valid = Unset /\ struct = "unset" /\ coordinates = <<>> /\ sites = <<>>
    /\ exc = ""
    /\ msg1_printed = 0 /\ lattice_sampled = FALSE /\ wyckoff_chosen = FALSE
    /\ last = NoAttempt
    /\ merge_first = NoMerge /\ merge_second = NoMerge
    /\ merge_before = 0

\* code that is followed on its own has not started
NoHelpers == cwp = Unset /\ c2d = Unset /\ oa = Unset /\ helper = Unset

NoDriver == main = Unset /\ rng = Unset /\ lat = Unset /\ ori = Unset

NoSide == NoDriver /\ NoHelpers

Fresh ==
    /\ pc = "init"
    /\ NoSide
    /\ merge_in = <<>>
    /\ merge_coor = <<>>
    /\ Blank

\* random_crystal(sg, species, numIons, factor).  The default budgets run
\* for requests of one ion of one species; larger requests are explored with
\* the budgets passed explicitly.
Init ==
    /\ sg \in SGs
    /\ species \in SpeciesLists
    /\ numIons0 \in Counts(Len(species), MaxFirst, MaxIons0)
    /\ args \in ArgChoices
    /\ args = <<max1, max2, max3>> => numIons0 = <<1>>
    /\ Fresh

merge_vars == <<merge_in, merge_first, merge_second, merge_coor, merge_before>>
request_vars == <<sg, species, numIons0, args>>
helper_vars == <<cwp, c2d, oa, helper>>
side_vars == <<main, rng, lat, ori, cwp, c2d, oa, helper>>
loop_vars == <<cycle1, cycle2, cycle3, sp, numIon_added, cell_matrix,
               coordinates_total, sites_total, coordinates_tmp, sites_tmp,
               good_structure>>
result_vars == <<valid, struct, coordinates, sites, exc>>
ghost_vars == <<msg1_printed, lattice_sampled, wyckoff_chosen, last>>

\* __init__: self.numIons = numIons * cellsize(self.sg)
ScaleIons ==
    /\ pc = "init"
    /\ numIons' = [i \in 1..Len(numIons0) |-> numIons0[i] * cellsize(sg)]
    /\ pc' = "volume"
    /\ UNCHANGED <<side_vars, request_vars, volume, degrees, budgets, loop_vars, result_vars,
                   ghost_vars, merge_vars>>

\* __init__: self.volume = estimate_volume(self.numIons, self.species, self.factor)
EstimateVolume ==
    /\ pc = "volume"
    /\ volume' = estimate_volume(numIons, species, factor)
    /\ pc' = "wyckoffs"
    /\ UNCHANGED <<side_vars, request_vars, numIons, degrees, budgets, loop_vars, result_vars,
                   ghost_vars, merge_vars>>

\* __init__: self.wyckoffs = get_wyckoffs(...), then generate_crystal() is entered
GetWyckoffs ==
    /\ pc = "wyckoffs"
    /\ pc' = "generate"
    /\ UNCHANGED <<side_vars, request_vars, numIons, volume, degrees, budgets, loop_vars,
                   result_vars, ghost_vars, merge_vars>>

\* generate_crystal: degrees = self.check_compatible()
CheckCompatible ==
    /\ pc = "generate"
    /\ degrees' = check_compatible(wyckoffs, numIons).result
    /\ pc' = "degrees"
    /\ UNCHANGED <<side_vars, request_vars, numIons, volume, budgets, loop_vars, result_vars,
                   ghost_vars, merge_vars>>

\* if degrees is False: print(Msg1); struct = None; valid = False; return
Incompatible ==
    /\ pc = "degrees"
    /\ is_False(degrees)
    /\ msg1_printed' = msg1_printed + 1
    /\ struct' = "None"
    /\ valid' = PyFalse
    /\ pc' = "done"
    /\ UNCHANGED <<side_vars, request_vars, numIons, volume, degrees, budgets, loop_vars,
                   coordinates, sites, exc, lattice_sampled, wyckoff_chosen, last,
                   merge_vars>>

\* else: the budgets drop to 5 when degrees is 0, and the outer loop starts
EnterLoops ==
    /\ pc = "degrees"
    /\ ~is_False(degrees)
    /\ budgets' = IF is_0(degrees) THEN <<max_nofreedom, max_nofreedom, max_nofreedom>>
                  ELSE args
    /\ cycle1' = 0
    /\ pc' = "cycle1"
    /\ UNCHANGED <<side_vars, request_vars, numIons, volume, degrees, cycle2, cycle3, sp,
                   numIon_added, cell_matrix, coordinates_total, sites_total,
                   coordinates_tmp, sites_tmp, good_structure, result_vars,
                   ghost_vars, merge_vars>>

\* minvector = max(max(2.0*radius), tol_m), in quarters of an Angstrom
minvector ==
    Max2(MaxOf({2 * covalent_radius(species[i]) : i \in 1..Len(species)}), tol_m)

Failed_mut ==
    /\ struct' = "Msg2"
    /\ valid' = valid
    /\ pc' = "done"

\* lines 1281-1284: struct = Msg2, valid = False
Failed ==
    /\ struct' = "Msg2"
    /\ valid' = PyFalse
    /\ pc' = "done"

\* for cycle1 in range(max1): a lattice is drawn and the accumulators start empty
SampleLattice ==
    /\ pc = "cycle1"
    /\ cycle1 < budgets[1]
    /\ \E L \in generate_lattice(sg, volume, minvector) :
          /\ L # NoLattice
          /\ cell_matrix' = L
    /\ lattice_sampled' = TRUE
    /\ coordinates_total' = <<>>
    /\ sites_total' = <<>>
    /\ good_structure' = FALSE
    /\ cycle2' = 0
    /\ pc' = "cycle2"
    /\ UNCHANGED <<side_vars, request_vars, numIons, volume, degrees, budgets, cycle1, cycle3, sp,
                   numIon_added, coordinates_tmp, sites_tmp, result_vars,
                   msg1_printed, wyckoff_chosen, last, merge_vars>>

\* cell_para is None: break, and the run fails
LatticeFails ==
    /\ pc = "cycle1"
    /\ cycle1 < budgets[1]
    /\ NoLattice \in generate_lattice(sg, volume, minvector)
    /\ lattice_sampled' = TRUE
    /\ Failed
    /\ UNCHANGED <<side_vars, request_vars, numIons, volume, degrees, budgets, loop_vars,
                   coordinates, sites, exc, msg1_printed, wyckoff_chosen, last,
                   merge_vars>>

\* range(max1) is exhausted
Cycle1Exhausted ==
    /\ pc = "cycle1"
    /\ cycle1 >= budgets[1]
    /\ Failed
    /\ UNCHANGED <<side_vars, request_vars, numIons, volume, degrees, budgets, loop_vars,
                   coordinates, sites, exc, ghost_vars, merge_vars>>

\* for cycle2 in range(max2): the working copies and the first species
StartCycle2 ==
    /\ pc = "cycle2"
    /\ cycle2 < budgets[2]
    /\ coordinates_tmp' = coordinates_total
    /\ sites_tmp' = sites_total
    /\ sp' = 1
    /\ numIon_added' = 0
    /\ cycle3' = 0
    /\ pc' = "cycle3"
    /\ UNCHANGED <<side_vars, request_vars, numIons, volume, degrees, budgets, cycle1, cycle2,
                   cell_matrix, coordinates_total, sites_total, good_structure,
                   result_vars, ghost_vars, merge_vars>>

\* range(max2) is exhausted with no good structure
Cycle2Exhausted ==
    /\ pc = "cycle2"
    /\ cycle2 >= budgets[2]
    /\ pc' = "cycle1_end"
    /\ UNCHANGED <<side_vars, request_vars, numIons, volume, degrees, budgets, loop_vars,
                   result_vars, ghost_vars, merge_vars>>

\* tol = max(0.5*radius, tol_m), in eighths of an Angstrom
merge_tol(specie) == Max2(covalent_radius(specie), 2 * tol_m)

\* coords = [op.operate(point) for op in ops]
orbit(ops, point) == [k \in 1..Len(ops) |-> operate(ops[k], point)]

\* the orbit is one that does not depend on the seed
IsFixed(ops) == \A k \in 1..Len(ops) : IsZeroMatrix(ops[k].rot)

AllSpecies == {"H", "Na"}

\* the positions choose_wyckoff can return for a request of the model
Drawable(g) ==
    {j \in 1..Len(wyckoff_list(g)) : Len(wyckoff_list(g)[j]) <= MaxIons0 * cellsize(g)}

\* a list of points written out point by point
listed(coor) == Concat([k \in 1..Len(coor) |-> <<<<coor[k][1], coor[k][2], coor[k][3]>>>>])

\* what merge_coordinate hands back, its points written out
result_listed(res) == [exc |-> res.exc, coor |-> listed(res.coor), index |-> res.index]

\* coords = [op.operate(point) for op in ops] and merge_coordinate(coords,
\* cell_matrix, self.wyckoffs, self.sg, tol) for every orbit a request of the
\* model can draw: the results of the calls, computed once
merge_results ==
    UNION {{[g |-> g, lattice |-> L, ops |-> wyckoff_list(g)[i], point |-> point, tol |-> tol,
             res |-> result_listed(
                        merge_coordinate(orbit(wyckoff_list(g)[i], point), L,
                                         get_wyckoffs(g, TRUE, NoPB), g, tol, None))] :
              L \in FamilyLattices(g),
              i \in Drawable(g),
              point \in Seeds,
              tol \in {merge_tol(specie) : specie \in AllSpecies}} : g \in SGs}

\* coords_toadd, good_merge = merge_coordinate(coords, cell_matrix, ...)
merged(g, L, ops, point, tol) ==
    (CHOOSE e \in merge_results :
        e.g = g /\ e.lattice = L /\ e.ops = ops /\ e.point = point /\ e.tol = tol).res

InnerGuard ==
    /\ pc = "cycle3"
    /\ cycle3 < budgets[3]

\* ops = choose_wyckoff(...) is False: the attempt is over
NoWyckoff ==
    /\ InnerGuard
    /\ \E high \in BOOLEAN : choose_wyckoff(wyckoffs, numIons[sp] - numIon_added, high) = {}
    /\ wyckoff_chosen' = TRUE
    /\ last' = [NoAttempt EXCEPT !.outcome = "nowyckoff"]
    /\ cycle3' = cycle3 + 1
    /\ UNCHANGED <<side_vars, request_vars, pc, numIons, volume, degrees, budgets, cycle1, cycle2,
                   sp, numIon_added, cell_matrix, coordinates_total, sites_total,
                   coordinates_tmp, sites_tmp, good_structure, result_vars,
                   msg1_printed, lattice_sampled, merge_vars>>

\* merge_coordinate raises: the exception leaves generate_crystal
MergeRaises ==
    /\ InnerGuard
    /\ \E high \in BOOLEAN :
       \E ops \in choose_wyckoff(wyckoffs, numIons[sp] - numIon_added, high) :
       \E point \in Seeds :
          LET res == merged(sg, cell_matrix, ops, point, merge_tol(species[sp]))
          IN  /\ res.exc # ""
              /\ exc' = res.exc
              /\ last' = [NoAttempt EXCEPT !.outcome = "raise", !.fixed = IsFixed(ops)]
    /\ wyckoff_chosen' = TRUE
    /\ pc' = "raised"
    /\ UNCHANGED <<side_vars, request_vars, numIons, volume, degrees, budgets, loop_vars,
                   valid, struct, coordinates, sites, msg1_printed, lattice_sampled,
                   merge_vars>>

\* good_merge is False: the attempt is over
MergeFails ==
    /\ InnerGuard
    /\ \E high \in BOOLEAN :
       \E ops \in choose_wyckoff(wyckoffs, numIons[sp] - numIon_added, high) :
       \E point \in Seeds :
          LET res == merged(sg, cell_matrix, ops, point, merge_tol(species[sp]))
          IN  /\ res.exc = ""
              /\ res.index = PyFalse
              /\ last' = [NoAttempt EXCEPT !.outcome = "mergefail", !.fixed = IsFixed(ops)]
    /\ wyckoff_chosen' = TRUE
    /\ cycle3' = cycle3 + 1
    /\ UNCHANGED <<side_vars, request_vars, pc, numIons, volume, degrees, budgets, cycle1, cycle2,
                   sp, numIon_added, cell_matrix, coordinates_total, sites_total,
                   coordinates_tmp, sites_tmp, good_structure, result_vars,
                   msg1_printed, lattice_sampled, merge_vars>>

\* check_distance is False: nothing is appended
DistanceRejects ==
    /\ InnerGuard
    /\ \E high \in BOOLEAN :
       \E ops \in choose_wyckoff(wyckoffs, numIons[sp] - numIon_added, high) :
       \E point \in Seeds :
          LET res == merged(sg, cell_matrix, ops, point, merge_tol(species[sp]))
              coords_toadd == wrap(res.coor)
          IN  /\ res.exc = ""
              /\ res.index # PyFalse
              /\ ~check_distance(coordinates_tmp, coords_toadd, sites_tmp, species[sp],
                                 cell_matrix, None, d_factor)
              /\ last' = [outcome |-> "reject", fixed |-> IsFixed(ops),
                          dup |-> InSeq(coords_toadd, coordinates_tmp),
                          wrapped |-> coords_toadd # res.coor]
    /\ wyckoff_chosen' = TRUE
    /\ cycle3' = cycle3 + 1
    /\ UNCHANGED <<side_vars, request_vars, pc, numIons, volume, degrees, budgets, cycle1, cycle2,
                   sp, numIon_added, cell_matrix, coordinates_total, sites_total,
                   coordinates_tmp, sites_tmp, good_structure, result_vars,
                   msg1_printed, lattice_sampled, merge_vars>>

\* the orbit is appended; when the species is complete the accumulators are
\* saved and the inner loop breaks
AppendOrbit ==
    /\ InnerGuard
    /\ \E high \in BOOLEAN :
       \E ops \in choose_wyckoff(wyckoffs, numIons[sp] - numIon_added, high) :
       \E point \in Seeds :
          LET res == merged(sg, cell_matrix, ops, point, merge_tol(species[sp]))
              coords_toadd == wrap(res.coor)
              added == numIon_added + Len(coords_toadd)
          IN  /\ res.exc = ""
              /\ res.index # PyFalse
              /\ check_distance(coordinates_tmp, coords_toadd, sites_tmp, species[sp],
                                cell_matrix, None, d_factor)
              /\ coordinates_tmp' = Append(coordinates_tmp, coords_toadd)
              /\ sites_tmp' = Append(sites_tmp, species[sp])
              /\ numIon_added' = added
              /\ last' = [outcome |-> "append", fixed |-> IsFixed(ops),
                          dup |-> InSeq(coords_toadd, coordinates_tmp),
                          wrapped |-> coords_toadd # res.coor]
              /\ IF added = numIons[sp]
                 THEN /\ coordinates_total' = Append(coordinates_tmp, coords_toadd)
                      /\ sites_total' = Append(sites_tmp, species[sp])
                      /\ pc' = "species_end"
                      /\ cycle3' = cycle3
                 ELSE /\ UNCHANGED <<coordinates_total, sites_total, pc>>
                      /\ cycle3' = cycle3 + 1
    /\ wyckoff_chosen' = TRUE
    /\ UNCHANGED <<side_vars, request_vars, numIons, volume, degrees, budgets, cycle1, cycle2, sp,
                   cell_matrix, good_structure, result_vars, msg1_printed,
                   lattice_sampled, merge_vars>>

\* range(max3) is exhausted
Cycle3Exhausted ==
    /\ pc = "cycle3"
    /\ cycle3 >= budgets[3]
    /\ pc' = "species_end"
    /\ UNCHANGED <<side_vars, request_vars, numIons, volume, degrees, budgets, loop_vars,
                   result_vars, ghost_vars, merge_vars>>

\* if numIon_added != numIon: break
SpeciesFailed ==
    /\ pc = "species_end"
    /\ numIon_added # numIons[sp]
    /\ pc' = "cycle2_end"
    /\ UNCHANGED <<side_vars, request_vars, numIons, volume, degrees, budgets, loop_vars,
                   result_vars, ghost_vars, merge_vars>>

\* the species is complete: the next one starts, or the loop over species ends
SpeciesDone ==
    /\ pc = "species_end"
    /\ numIon_added = numIons[sp]
    /\ IF sp < Min2(Len(numIons), Len(species))
       THEN /\ sp' = sp + 1
            /\ numIon_added' = 0
            /\ cycle3' = 0
            /\ pc' = "cycle3"
       ELSE /\ pc' = "cycle2_end"
            /\ UNCHANGED <<sp, numIon_added, cycle3>>
    /\ UNCHANGED <<side_vars, request_vars, numIons, volume, degrees, budgets, cycle1, cycle2,
                   cell_matrix, coordinates_total, sites_total, coordinates_tmp,
                   sites_tmp, good_structure, result_vars, ghost_vars, merge_vars>>

\* if numIon_added == numIon: good_structure = True; break
StructureComplete ==
    /\ pc = "cycle2_end"
    /\ numIon_added = numIons[sp]
    /\ good_structure' = TRUE
    /\ pc' = "cycle1_end"
    /\ UNCHANGED <<side_vars, request_vars, numIons, volume, degrees, budgets, cycle1, cycle2,
                   cycle3, sp, numIon_added, cell_matrix, coordinates_total,
                   sites_total, coordinates_tmp, sites_tmp, result_vars, ghost_vars,
                   merge_vars>>

ResetAccumulators_mut ==
    /\ pc = "cycle2_end"
    /\ numIon_added # numIons[sp]
    /\ cycle2' = cycle2 + 1
    /\ pc' = "cycle2"
    /\ UNCHANGED <<side_vars, request_vars, numIons, volume, degrees, budgets, cycle1, cycle3, sp,
                   numIon_added, cell_matrix, coordinates_total, sites_total,
                   coordinates_tmp, sites_tmp, good_structure, result_vars, ghost_vars,
                   merge_vars>>

\* else: coordinates_total = [], sites_total = [], and the next cycle2
ResetAccumulators ==
    /\ pc = "cycle2_end"
    /\ numIon_added # numIons[sp]
    /\ coordinates_total' = <<>>
    /\ sites_total' = <<>>
    /\ cycle2' = cycle2 + 1
    /\ pc' = "cycle2"
    /\ UNCHANGED <<side_vars, request_vars, numIons, volume, degrees, budgets, cycle1, cycle3, sp,
                   numIon_added, cell_matrix, coordinates_tmp, sites_tmp,
                   good_structure, result_vars, ghost_vars, merge_vars>>

\* if good_structure: the final lists are built and valid = True
Success ==
    /\ pc = "cycle1_end"
    /\ good_structure
    /\ coordinates' = Concat(coordinates_total)
    /\ sites' = Concat([k \in 1..Min2(Len(coordinates_total), Len(sites_total)) |->
                          [a \in 1..Len(coordinates_total[k]) |-> sites_total[k]]])
    /\ struct' = "Structure"
    /\ valid' = PyTrue
    /\ pc' = "done"
    /\ UNCHANGED <<side_vars, request_vars, numIons, volume, degrees, budgets, loop_vars, exc,
                   ghost_vars, merge_vars>>

\* no good structure with this lattice: the next cycle1
NextCycle1 ==
    /\ pc = "cycle1_end"
    /\ ~good_structure
    /\ cycle1' = cycle1 + 1
    /\ pc' = "cycle1"
    /\ UNCHANGED <<side_vars, request_vars, numIons, volume, degrees, budgets, cycle2, cycle3, sp,
                   numIon_added, cell_matrix, coordinates_total, sites_total,
                   coordinates_tmp, sites_tmp, good_structure, result_vars,
                   ghost_vars, merge_vars>>

Next ==
    \/ ScaleIons \/ EstimateVolume \/ GetWyckoffs \/ CheckCompatible
    \/ Incompatible \/ EnterLoops
    \/ SampleLattice \/ LatticeFails \/ Cycle1Exhausted
    \/ StartCycle2 \/ Cycle2Exhausted
    \/ NoWyckoff \/ MergeRaises \/ MergeFails \/ DistanceRejects \/ AppendOrbit
    \/ Cycle3Exhausted \/ SpeciesFailed \/ SpeciesDone
    \/ StructureComplete \/ ResetAccumulators
    \/ Success \/ NextCycle1

Spec == Init /\ [][Next]_vars

(***************************************************************************)
(* check_compatible on its own, over larger requests                        *)
(***************************************************************************)
InitCompat ==
    /\ sg \in SGs
    /\ species \in SpeciesLists
    /\ numIons0 \in Counts(Len(species), MaxCompatIons, MaxCompatIons)
    /\ args = <<max1, max2, max3>>
    /\ Fresh

NextCompat == ScaleIons \/ EstimateVolume \/ GetWyckoffs \/ CheckCompatible

SpecCompat == InitCompat /\ [][NextCompat]_vars

(***************************************************************************)
(* merge_coordinate on its own: an orbit is merged, and the orbit it        *)
(* returns is merged again                                                  *)
(***************************************************************************)
InitMerge ==
    /\ sg \in SGs
    /\ species = <<"H">>
    /\ numIons0 = <<1>>
    /\ args = <<max1, max2, max3>>
    /\ pc = "merge"
    /\ merge_coor = <<>>
    /\ \E L \in FamilyLattices(sg) : \E i \in 1..Len(wyckoff_list(sg)) : \E point \in Seeds :
       \E PBC \in {None, 1, 2, 3} :
          merge_in = [coor |-> orbit(wyckoff_list(sg)[i], point), lattice |-> L,
                      tol |-> merge_tol("H"), PBC |-> PBC]
    /\ Blank
    /\ NoSide
    /\ NoSide

\* coords_toadd, good_merge = merge_coordinate(coords, cell_matrix, wyckoffs, sg, tol, PBC)
MergeOnce ==
    /\ pc = "merge"
    /\ merge_first' = merge_coordinate(merge_in.coor, merge_in.lattice, wyckoffs, sg,
                                       merge_in.tol, merge_in.PBC)
    /\ pc' = "merged"
    /\ UNCHANGED <<side_vars, request_vars, numIons, volume, degrees, budgets, loop_vars,
                   result_vars, ghost_vars, merge_in, merge_second, merge_coor,
                   merge_before>>

\* merge_coordinate applied to the orbit it returned with an index
MergeAgain ==
    /\ pc = "merged"
    /\ merge_first.exc = ""
    /\ merge_first.index # PyFalse
    /\ merge_second' = merge_coordinate(merge_first.coor, merge_in.lattice, wyckoffs, sg,
                                        merge_in.tol, merge_in.PBC)
    /\ pc' = "remerged"
    /\ UNCHANGED <<side_vars, request_vars, numIons, volume, degrees, budgets, loop_vars,
                   result_vars, ghost_vars, merge_in, merge_first, merge_coor,
                   merge_before>>

NextMerge == MergeOnce \/ MergeAgain

SpecMerge == InitMerge /\ [][NextMerge]_vars

(***************************************************************************)
(* the loop of merge_coordinate, one iteration at a time                    *)
(***************************************************************************)
InitMergeLoop ==
    /\ sg \in SGs
    /\ species = <<"H">>
    /\ numIons0 = <<1>>
    /\ args = <<max1, max2, max3>>
    /\ pc = "loop"
    /\ \E L \in FamilyLattices(sg) : \E i \in 1..Len(wyckoff_list(sg)) : \E point \in Seeds :
       \E PBC \in {None, 3} :
          /\ merge_in = [coor |-> orbit(wyckoff_list(sg)[i], point), lattice |-> L,
                         tol |-> merge_tol("H"), PBC |-> PBC]
          /\ merge_coor = orbit(wyckoff_list(sg)[i], point)
    /\ Blank
    /\ NoSide

\* the orbits merge_coordinate is called on
loop_inputs ==
    UNION {{[g |-> g, lattice |-> L, PBC |-> PBC, coor |-> orbit(wyckoff_list(g)[i], point)] :
              L \in FamilyLattices(g),
              i \in 1..Len(wyckoff_list(g)),
              point \in Seeds,
              PBC \in {None, 3}} : g \in SGs}

round_listed(round) == [again |-> round.again, res |-> result_listed(round.res)]

\* one iteration of `while True` from every orbit of a set, computed once
rounds_from(inputs) ==
    {[g |-> e.g, lattice |-> e.lattice, PBC |-> e.PBC, coor |-> listed(e.coor),
      round |-> round_listed(
                    merge_round(e.coor, find_short_dist(e.coor, e.lattice, merge_tol("H")),
                                e.lattice, get_wyckoffs(e.g, TRUE, NoPB), e.g, e.PBC))] :
       e \in inputs}

\* coor = merged: the orbits the next iteration starts from
replaced(rounds) ==
    {[g |-> e.g, lattice |-> e.lattice, PBC |-> e.PBC, coor |-> e.round.res.coor] :
       e \in {x \in rounds : x.round.again}}

first_rounds == rounds_from(loop_inputs)

second_rounds == rounds_from(replaced(first_rounds))

third_rounds == rounds_from(replaced(second_rounds))

\* the iteration of `while True` that starts from merge_coor
this_round ==
    (CHOOSE e \in first_rounds \cup second_rounds \cup third_rounds :
        /\ e.g = sg
        /\ e.lattice = merge_in.lattice
        /\ e.PBC = merge_in.PBC
        /\ e.coor = merge_coor).round

\* coor = merged, and the loop goes round again
MergeRound ==
    /\ pc = "loop"
    /\ this_round.again
    /\ merge_coor' = this_round.res.coor
    /\ merge_before' = Len(merge_coor)
    /\ UNCHANGED <<side_vars, request_vars, pc, numIons, volume, degrees, budgets, loop_vars,
                   result_vars, ghost_vars, merge_in, merge_first, merge_second>>

\* the iteration returns, or an exception leaves merge_coordinate
MergeEnds ==
    /\ pc = "loop"
    /\ ~this_round.again
    /\ merge_first' = this_round.res
    /\ pc' = IF this_round.res.exc # "" THEN "merge_raised" ELSE "merge_returned"
    /\ UNCHANGED <<side_vars, request_vars, numIons, volume, degrees, budgets, loop_vars,
                   result_vars, ghost_vars, merge_in, merge_second, merge_coor,
                   merge_before>>

NextMergeLoop == MergeRound \/ MergeEnds

\* the interpreter runs the next iteration whenever there is one
SpecMergeLoop == InitMergeLoop /\ [][NextMergeLoop]_vars /\ WF_vars(NextMergeLoop)

(***************************************************************************)
(* The command-line driver (`if __name__ == "__main__"`)                    *)
(***************************************************************************)
\* the names `timespent` is read from: the driver never assigns it
Assigned == {"element", "number", "numIons", "verbosity", "attempts", "outdir", "system",
             "i", "numIons0", "sg", "rand_crystal", "written", "comp", "cifpath", "ans"}

\* reading a name: its value, or NameError
Reads(name) == IF name \in Assigned THEN "" ELSE "NameError"

InitMain ==
    /\ NoHelpers
    /\ sg \in {1, 2}
    /\ species = <<"H">>
    /\ numIons0 = <<1>>
    /\ args = <<max1, max2, max3>>
    /\ pc = "main"
    /\ merge_in = <<>>
    /\ merge_coor = <<>>
    /\ Blank
    /\ rng = Unset
    /\ lat = Unset
    /\ ori = Unset
    /\ \E attempts \in 1..MaxAttempts : \E verbosity \in {0, 1} :
          main = [attempts |-> attempts, verbosity |-> verbosity, i |-> 0,
                  printed |-> <<>>, exc |-> "", status |-> Unset]

MainUnchanged ==
    UNCHANGED <<request_vars, numIons, volume, degrees, budgets, loop_vars,
                result_vars, ghost_vars, merge_vars, rng, lat, ori,
                helper_vars>>

\* an uncaught exception: traceback, exit status 1
Traceback(printed, e) ==
    [main EXCEPT !.printed = printed, !.exc = e, !.status = 1]

\* rand_crystal.valid is true: the cif file is written or not, the space groups
\* are printed, and with verbosity > 0 `timespent` is read
AttemptValid ==
    /\ pc = "main"
    /\ main.i < main.attempts
    /\ \E written \in BOOLEAN :
          LET printed == main.printed \o <<"Space group  requested",
                             IF written THEN "Output to" ELSE "Could not write cif file">>
          IN  IF main.verbosity > 0 /\ Reads("timespent") # ""
              THEN /\ main' = Traceback(printed, Reads("timespent"))
                   /\ pc' = "main_exit"
              ELSE /\ main' = [main EXCEPT !.printed = printed, !.i = main.i + 1]
                   /\ pc' = pc
    /\ MainUnchanged

\* rand_crystal.valid is false: 'something is wrong', then `timespent` is read
AttemptInvalid ==
    /\ pc = "main"
    /\ main.i < main.attempts
    /\ IF Reads("timespent") # ""
       THEN /\ main' = Traceback(main.printed \o <<"something is wrong">>, Reads("timespent"))
            /\ pc' = "main_exit"
       ELSE /\ main' = [main EXCEPT !.printed = main.printed \o <<"something is wrong",
                                                                  "Time spent">>,
                                    !.i = main.i + 1]
            /\ pc' = pc
    /\ MainUnchanged

\* random_crystal(...) ends with an exception
AttemptRaises ==
    /\ pc = "main"
    /\ main.i < main.attempts
    /\ \E e \in {"TypeError", "NameError"} : main' = Traceback(main.printed, e)
    /\ pc' = "main_exit"
    /\ MainUnchanged

\* range(attempts) is exhausted: the interpreter exits with status 0
MainEnds ==
    /\ pc = "main"
    /\ main.i = main.attempts
    /\ main' = [main EXCEPT !.status = 0]
    /\ pc' = "main_exit"
    /\ MainUnchanged

NextMain == AttemptValid \/ AttemptInvalid \/ AttemptRaises \/ MainEnds

SpecMain == InitMain /\ [][NextMain]_vars

(***************************************************************************)
(* The random generators: one structure generation, run twice               *)
(***************************************************************************)
\* the module-level generators the code draws from: numpy's global
\* RandomState (np.random.*) and the generator of the random module
\* (`from random import uniform as rand`, `choice as choose`)
Generators == {"numpy", "random"}

\* the draws of one pass of generate_crystal, in order, and where each is taken
DrawSteps ==
    <<[what |-> "random_vector", from |-> "numpy"],     \* np.random.normal in operations.py
      [what |-> "gaussian", from |-> "numpy"],          \* np.random.normal
      [what |-> "rand(0,1)", from |-> "random"],        \* random.uniform
      [what |-> "choose", from |-> "random"],           \* random.choice
      [what |-> "np.random.random(3)", from |-> "numpy"]>>

\* a generator is a state; a draw returns a value of the state and moves on
Output(state) == (2 * state + 1) % RngStates

Advance(state) == (state + 1) % RngStates

Runs == {1, 2}

\* two runs with the same inputs; one generator was put in the same state for
\* both (the one a caller seeds), the other is in whatever state it is in
InitDraws ==
    /\ NoHelpers
    /\ sg \in {1, 2}
    /\ species = <<"H">>
    /\ numIons0 = <<1>>
    /\ args = <<max1, max2, max3>>
    /\ pc = "draws"
    /\ merge_in = <<>>
    /\ merge_coor = <<>>
    /\ Blank
    /\ main = Unset
    /\ lat = Unset
    /\ ori = Unset
    /\ \E seeded \in Generators : \E state \in [Generators -> [Runs -> 0..(RngStates - 1)]] :
          /\ state[seeded][1] = state[seeded][2]
          /\ rng = [seeded |-> seeded, state |-> state, drawn |-> [r \in Runs |-> <<>>]]

\* run r makes its next draw
Draw(r) ==
    /\ pc = "draws"
    /\ Len(rng.drawn[r]) < Len(DrawSteps)
    /\ LET step == DrawSteps[Len(rng.drawn[r]) + 1]
       IN  rng' = [rng EXCEPT
                      !.drawn[r] = Append(@, Output(rng.state[step.from][r])),
                      !.state[step.from][r] = Advance(@)]
    /\ UNCHANGED <<request_vars, pc, numIons, volume, degrees, budgets, loop_vars,
                   result_vars, ghost_vars, merge_vars, main, lat, ori,
                helper_vars>>

NextDraws == \E r \in Runs : Draw(r)

SpecDraws == InitDraws /\ [][NextDraws]_vars

(***************************************************************************)
(* generate_lattice(sg, volume, minvec, minangle, max_ratio, maxattempts):  *)
(* lengths in angstrom, angles in degrees                                   *)
(***************************************************************************)
\* minangle=pi/6 and max_ratio=10.0 of the signature
minangle == 30
max_ratio == 10

\* maxangle = pi-minangle
maxangle == 180 - minangle

\* the lengths the scaling of random_vector() to the volume comes to
Lengths == {1, 2, 3, 4, 30}

\* the angles of matrix2para(random_shear_matrix(width=0.2))
ShearAngles == {30, 60, 90, 120, 150}

\* gaussian(min, max): the loop only returns x with x > min and x < max
gaussian(min, max) == {x \in ShearAngles : x > min /\ x < max}

\* one space-group number at each end of every family
LatticeGroups == {1, 2, 3, 15, 16, 74, 75, 142, 143, 194, 195, 230}

\* (volume) ** (1./3.) for the volumes the model uses
CubeRoot(v) == CHOOSE s \in Lengths : s * s * s = v

Para(a, b, c, alpha, beta, gamma) ==
    [a |-> a, b |-> b, c |-> c, alpha |-> alpha, beta |-> beta, gamma |-> gamma]

lattice_samples_mut(g, vol) ==
    {Para(a, b, c, 90, 90, 60) : a \in Lengths, b \in Lengths, c \in Lengths}

\* the body of `for n in range(maxattempts)` down to the test: the parameters
\* one pass can come to, by family
lattice_samples(g, vol) ==
    IF g <= 2
    THEN {Para(a, b, c, alpha, beta, gamma) :
             a \in Lengths, b \in Lengths, c \in Lengths,
             alpha \in ShearAngles, beta \in ShearAngles, gamma \in ShearAngles}
    ELSE IF g <= 15
    THEN {Para(a, b, c, 90, beta, 90) :
             a \in Lengths, b \in Lengths, c \in Lengths, beta \in gaussian(minangle, maxangle)}
    ELSE IF g <= 74
    THEN {Para(a, b, c, 90, 90, 90) : a \in Lengths, b \in Lengths, c \in Lengths}
    ELSE IF g <= 142
    THEN {Para(a, a, c, 90, 90, 90) : a \in Lengths, c \in Lengths}
    ELSE IF g <= 194
    THEN {Para(a, a, c, 90, 90, 120) : a \in Lengths, c \in Lengths}
    ELSE {Para(CubeRoot(vol), CubeRoot(vol), CubeRoot(vol), 90, 90, 90)}

\* x*cos(angle) < minvec, for angles that are multiples of 30 degrees
CosBelow(x, angle, minvec) ==
    IF angle >= 90 THEN TRUE
    ELSE IF angle = 60 THEN x < 2 * minvec
    ELSE 3 * x * x < 4 * minvec * minvec

\* smallvec = min(a*cos(max(beta, gamma)), b*cos(max(alpha, gamma)),
\*                c*cos(max(alpha, beta))) < minvec
smallvec_below(p, minvec) ==
    \/ CosBelow(p.a, Max2(p.beta, p.gamma), minvec)
    \/ CosBelow(p.b, Max2(p.alpha, p.gamma), minvec)
    \/ CosBelow(p.c, Max2(p.alpha, p.beta), minvec)

lattice_meets_mut(p, minvec) ==
    /\ p.a >= minvec /\ p.b >= minvec /\ p.c >= minvec
    /\ p.alpha >= minangle /\ p.beta >= minangle /\ p.gamma >= minangle

\* maxvec = (a*b*c)/(minvec**2); `if minvec < maxvec:` and the test under it
lattice_meets(p, minvec) ==
    /\ minvec * minvec * minvec < p.a * p.b * p.c
    /\ p.a > minvec /\ p.b > minvec /\ p.c > minvec
    /\ p.a * minvec * minvec < p.a * p.b * p.c
    /\ p.b * minvec * minvec < p.a * p.b * p.c
    /\ p.c * minvec * minvec < p.a * p.b * p.c
    /\ smallvec_below(p, minvec)
    /\ p.alpha > minangle /\ p.beta > minangle /\ p.gamma > minangle
    /\ p.alpha < maxangle /\ p.beta < maxangle /\ p.gamma < maxangle
    /\ p.a < max_ratio * p.b /\ p.a < max_ratio * p.c /\ p.b < max_ratio * p.c
    /\ p.b < max_ratio * p.a /\ p.c < max_ratio * p.a /\ p.c < max_ratio * p.b

InitLattice ==
    /\ NoHelpers
    /\ sg \in LatticeGroups
    /\ species = <<"H">>
    /\ numIons0 = <<1>>
    /\ args = <<max1, max2, max3>>
    /\ pc = "lattice"
    /\ merge_in = <<>>
    /\ merge_coor = <<>>
    /\ Blank
    /\ main = Unset
    /\ rng = Unset
    /\ ori = Unset
    /\ \E s \in Lengths : \E minvec \in {1, 2} : \E maxattempts \in 1..MaxLatticeAttempts :
          lat = [volume |-> s * s * s, minvec |-> minvec, maxattempts |-> maxattempts,
                 n |-> 0, returned |-> "", result |-> Para(0, 0, 0, 0, 0, 0)]

LatticeUnchanged ==
    UNCHANGED <<request_vars, numIons, volume, degrees, budgets, loop_vars,
                result_vars, ghost_vars, merge_vars, main, rng, ori,
                helper_vars>>

\* a pass whose parameters fail the test: the loop goes on
LatticeRejects ==
    /\ pc = "lattice"
    /\ lat.n < lat.maxattempts
    /\ ~(\A p \in lattice_samples(sg, lat.volume) : lattice_meets(p, lat.minvec))
    /\ lat' = [lat EXCEPT !.n = lat.n + 1]
    /\ pc' = pc
    /\ LatticeUnchanged

\* return np.array([a, b, c, alpha, beta, gamma])
LatticeReturns ==
    /\ pc = "lattice"
    /\ lat.n < lat.maxattempts
    /\ \E p \in lattice_samples(sg, lat.volume) :
          /\ lattice_meets(p, lat.minvec)
          /\ lat' = [lat EXCEPT !.returned = "para", !.result = p]
    /\ pc' = "lattice_done"
    /\ LatticeUnchanged

\* the loop is over: the error is printed, and `return` gives None
LatticeGivesUp ==
    /\ pc = "lattice"
    /\ lat.n = lat.maxattempts
    /\ lat' = [lat EXCEPT !.returned = "None"]
    /\ pc' = "lattice_done"
    /\ LatticeUnchanged

NextLattice == LatticeRejects \/ LatticeReturns \/ LatticeGivesUp

SpecLattice == InitLattice /\ [][NextLattice]_vars

(***************************************************************************)
(* class orientation (operations.py)                                        *)
(***************************************************************************)
Identity3 == <<<<1, 0, 0>>, <<0, 1, 0>>, <<0, 0, 1>>>>

\* axis=None
NoAxis == <<>>

\* the matrices an orientation is made with: two rotations, and one matrix
\* that is not orthogonal
OrientationMatrices ==
    {Identity3, <<<<0, -1, 0>>, <<1, 0, 0>>, <<0, 0, 1>>>>,
     <<<<2, 0, 0>>, <<0, 2, 0>>, <<0, 0, 2>>>>}

Transpose(m) == <<Col(m, 1), Col(m, 2), Col(m, 3)>>

\* is_orthogonal(m): m m^T and m^T m are the identity
is_orthogonal(m) ==
    /\ \A i, j \in 1..3 : MatMul(m, Transpose(m))[i][j] = Identity3[i][j]
    /\ \A i, j \in 1..3 : MatMul(Transpose(m), m)[i][j] = Identity3[i][j]

\* the attributes __init__ leaves on the object
orientation(matrix, dof, axis) ==
    IF ~is_orthogonal(matrix)
    THEN [has_attrs |-> FALSE, matrix |-> ZeroMatrix, degrees |-> Unset, axis |-> NoAxis]
    ELSE [has_attrs |-> TRUE, matrix |-> matrix, degrees |-> 0, axis |-> axis]

\* get_matrix(self, angle): what is returned, or the exception
get_matrix(self, angle) ==
    IF ~self.has_attrs THEN [exc |-> "AttributeError", kind |-> "none"]
    ELSE IF self.degrees = 2
    THEN [exc |-> "", kind |-> IF angle = "random" THEN "arbitrary rotation" ELSE "fixed matrix"]
    ELSE IF self.degrees = 1
    THEN [exc |-> "", kind |-> "rotation about the axis"]
    ELSE IF self.degrees = 0
    THEN [exc |-> "", kind |-> "fixed matrix"]
    ELSE [exc |-> "", kind |-> "None"]

NotCalled == [exc |-> "", kind |-> ""]

InitOrientation ==
    /\ NoHelpers
    /\ sg \in {1, 2}
    /\ species = <<"H">>
    /\ numIons0 = <<1>>
    /\ args = <<max1, max2, max3>>
    /\ pc = "orientation"
    /\ merge_in = <<>>
    /\ merge_coor = <<>>
    /\ Blank
    /\ main = Unset
    /\ rng = Unset
    /\ lat = Unset
    /\ \E matrix \in OrientationMatrices : \E dof \in 0..2 : \E axis \in {NoAxis, X, Z} :
          ori = [args |-> [matrix |-> matrix, degrees |-> dof, axis |-> axis],
                 made |-> "", d |-> Unset,
                 self |-> orientation(<<<<2, 0, 0>>, <<0, 2, 0>>, <<0, 0, 2>>>>, 0, NoAxis),
                 angle |-> "", got |-> NotCalled]

OrientationUnchanged ==
    UNCHANGED <<request_vars, pc, numIons, volume, degrees, budgets, loop_vars,
                result_vars, ghost_vars, merge_vars, main, rng, lat,
                helper_vars>>

\* orientation(matrix, degrees, axis)
NewOrientation ==
    /\ pc = "orientation"
    /\ ori.made = ""
    /\ ori' = [ori EXCEPT !.made = "orientation", !.d = ori.args.degrees,
                          !.self = orientation(ori.args.matrix, ori.args.degrees,
                                               ori.args.axis)]
    /\ OrientationUnchanged

\* orientation.from_constraint(v1, c1): return orientation(m, degrees=1, axis=c1)
\* with m = rotate_vector(v1, c1), a rotation
FromConstraint ==
    /\ pc = "orientation"
    /\ ori.made = ""
    /\ is_orthogonal(ori.args.matrix)
    /\ ori.args.axis # NoAxis
    /\ ori' = [ori EXCEPT !.made = "from_constraint", !.d = 1,
                          !.self = orientation(ori.args.matrix, 1, ori.args.axis)]
    /\ OrientationUnchanged

\* self.get_matrix(angle)
GetMatrix ==
    /\ pc = "orientation"
    /\ ori.made # ""
    /\ ori.got = NotCalled
    /\ \E angle \in {"random", "pi/2"} :
          ori' = [ori EXCEPT !.angle = angle, !.got = get_matrix(ori.self, angle)]
    /\ OrientationUnchanged

NextOrientation == NewOrientation \/ FromConstraint \/ GetMatrix

SpecOrientation == InitOrientation /\ [][NextOrientation]_vars

(***************************************************************************)
(* check_wyckoff_position(points, sg, exact_translation=False) on its own   *)
(***************************************************************************)
\* the orbits of the positions of the group, and the same without their
\* last point followed by a point of the general orbit
CheckedPoints(g) ==
    UNION {{orbit(wyckoff_list(g)[i], point),
            Append(SubSeq(orbit(wyckoff_list(g)[i], point), 1,
                          Len(wyckoff_list(g)[i]) - 1),
                   operate(wyckoff_list(g)[1][Len(wyckoff_list(g)[1])], <<8, 3, 5>>))} :
             i \in 1..Len(wyckoff_list(g)), point \in Seeds}

InitCheck ==
    /\ sg \in SGs
    /\ species = <<"H">>
    /\ numIons0 = <<1>>
    /\ args = <<max1, max2, max3>>
    /\ pc = "check"
    /\ merge_in = <<>>
    /\ merge_coor = <<>>
    /\ Blank
    /\ NoDriver
    /\ c2d = Unset /\ oa = Unset /\ helper = Unset
    /\ \E points \in CheckedPoints(sg) :
          cwp = [points |-> points, exc |-> "", index |-> Unset]

\* the positions whose tabulated site symmetries match the stabilizers of the points
Possible(points, g) ==
    cwp_possible(point_symm(points, get_wyckoffs(g, FALSE, NoPB)[1], 1, <<>>),
                 get_wyckoff_symmetry(g))

\* index = check_wyckoff_position(points, sg, exact_translation=False)
CheckWyckoffPosition ==
    /\ pc = "check"
    /\ cwp' = [cwp EXCEPT !.exc = check_wyckoff_position(cwp.points, sg).exc,
                          !.index = check_wyckoff_position(cwp.points, sg).index]
    /\ pc' = IF check_wyckoff_position(cwp.points, sg).exc # ""
             THEN "check_raised" ELSE "checked"
    /\ UNCHANGED <<request_vars, numIons, volume, degrees, budgets, loop_vars,
                   result_vars, ghost_vars, merge_vars, main, rng, lat, ori, c2d, oa,
                   helper>>

NextCheck == CheckWyckoffPosition

SpecCheck == InitCheck /\ [][NextCheck]_vars

(***************************************************************************)
(* one pass of the innermost loop of generate_crystal, from the result of   *)
(* merge_coordinate on, in random_crystal and in random_crystal_2D          *)
(***************************************************************************)
\* `if good_merge:` is taken for every value but False and 0
Truthy(x) == x # PyFalse /\ x # 0

\* the results merge_coordinate returns for the orbits of group g
MergeReturns(g) ==
    {e \in merge_results : e.g = g /\ e.tol = merge_tol("H") /\ e.res.exc = ""}

\* the orbit is tried on an empty cell, and on a cell that already holds it
InitPasses ==
    /\ sg \in SGs
    /\ species = <<"H">>
    /\ numIons0 = <<1>>
    /\ args = <<max1, max2, max3>>
    /\ pc = "passes"
    /\ merge_in = <<>>
    /\ merge_coor = <<>>
    /\ Blank
    /\ NoDriver
    /\ cwp = Unset /\ oa = Unset /\ helper = Unset
    /\ \E e \in MergeReturns(sg) : \E held \in BOOLEAN :
          c2d = [good_merge |-> e.res.index,
                 coords_toadd |-> wrap(e.res.coor),
                 cell_matrix |-> e.lattice,
                 specie |-> "H",
                 coordinates_tmp |-> IF held THEN <<wrap(e.res.coor)>> ELSE <<>>,
                 sites_tmp |-> IF held THEN <<"H">> ELSE <<>>,
                 appended |-> [class \in {"random_crystal", "random_crystal_2D"} |-> Unset]]

PassUnchanged ==
    UNCHANGED <<request_vars, pc, numIons, volume, degrees, budgets, loop_vars,
                result_vars, ghost_vars, merge_vars, main, rng, lat, ori, cwp, oa,
                helper>>

\* random_crystal: if good_merge is not False: ... if check_distance(...): append
Pass3D ==
    /\ pc = "passes"
    /\ c2d.appended["random_crystal"] = Unset
    /\ c2d' = [c2d EXCEPT !.appended["random_crystal"] =
                  IF /\ ~is_False(c2d.good_merge)
                     /\ check_distance(c2d.coordinates_tmp, c2d.coords_toadd, c2d.sites_tmp,
                                       c2d.specie, c2d.cell_matrix, None, d_factor)
                  THEN PyTrue ELSE PyFalse]
    /\ PassUnchanged

\* random_crystal_2D: if good_merge: ... if check_distance(..., self.PBC): append
Pass2D ==
    /\ pc = "passes"
    /\ c2d.appended["random_crystal_2D"] = Unset
    /\ c2d' = [c2d EXCEPT !.appended["random_crystal_2D"] =
                  IF /\ Truthy(c2d.good_merge)
                     /\ check_distance(c2d.coordinates_tmp, c2d.coords_toadd, c2d.sites_tmp,
                                       c2d.specie, c2d.cell_matrix, 3, d_factor)
                  THEN PyTrue ELSE PyFalse]
    /\ PassUnchanged

NextPasses == Pass3D \/ Pass2D

SpecPasses == InitPasses /\ [][NextPasses]_vars

(***************************************************************************)
(* the end of random_crystal_2D.generate_crystal: a good structure is       *)
(* flattened, permuted and padded with vacuum.  Coordinates are fractions   *)
(* <<numerator, denominator>>, lengths are in angstrom                      *)
(***************************************************************************)
\* vacuum=10.0 of the signature of Add_vacuum
vacuum == 10

\* orbits of position 2a of Cm, (x, 0, z) and (x+1/2, 1/2, z), wrapped into [0,1)
SlabOrbits ==
    <<<<<<1, 0, 1>>, <<13, 12, 1>>>>, <<<<5, 0, 1>>, <<17, 12, 1>>>>,
      <<<<9, 0, 1>>, <<21, 12, 1>>>>, <<<<3, 0, 23>>, <<15, 12, 23>>>>,
      <<<<7, 0, 12>>, <<19, 12, 12>>>>>>

\* a, b, c of cells with right angles
SlabCells == {<<8, 8, 2>>, <<8, 8, 10>>, <<8, 9, 30>>, <<30, 9, 8>>}

\* self.PB: an arrangement of the axes 1, 2, 3
AxisOrders == {PB \in [1..3 -> 1..3] : {PB[1], PB[2], PB[3]} = 1..3}

InitSlab ==
    /\ sg \in {8}
    /\ species = <<"H">>
    /\ numIons0 = <<1>>
    /\ args = <<max1, max2, max3>>
    /\ pc = "good_structure"
    /\ merge_in = <<>>
    /\ merge_coor = <<>>
    /\ Blank
    /\ NoDriver
    /\ cwp = Unset /\ oa = Unset /\ helper = Unset
    /\ \E kept \in (SUBSET (1..Len(SlabOrbits))) \ {{}} : \E abc \in SlabCells :
       \E PB \in AxisOrders :
          c2d = [coordinates_total |-> SelectSeq(SlabOrbits, LAMBDA o : \E k \in kept : SlabOrbits[k] = o),
                 abc |-> abc,
                 PB |-> <<PB[1], PB[2], PB[3]>>,
                 final_coor |-> <<>>,
                 valid |-> Unset]

\* Permutation(lattice, coor, PB) on the lengths: para1[axis] = para[PB[axis]-1]
PermutedCell(abc, PB) == <<abc[PB[1]], abc[PB[2]], abc[PB[3]]>>

\* Permutation(lattice, coor, PB) on the points: coor1[:,axis] = coor[:,PB[axis]-1]
PermutedCoor(coor, PB) ==
    [k \in 1..Len(coor) |-> <<coor[k][PB[1]], coor[k][PB[2]], coor[k][PB[3]]>>]

\* Add_vacuum(lattice, coor): coor[:,dim]*old/new - mean + 0.5 with
\* old = lattice[dim, dim] and new = old + vacuum, as an exact fraction
Padded(z, total, n, old) ==
    <<2 * (n * z * old - total * old) + Grid * (old + vacuum) * n,
      2 * Grid * (old + vacuum) * n>>

Add_vacuum(old, coor) ==
    [k \in 1..Len(coor) |->
        <<<<coor[k][1], Grid>>, <<coor[k][2], Grid>>,
          Padded(coor[k][3], SumSeq([j \in 1..Len(coor) |-> coor[j][3]]), Len(coor), old)>>]

SlabUnchanged ==
    UNCHANGED <<request_vars, numIons, volume, degrees, budgets, loop_vars,
                result_vars, ghost_vars, merge_vars, main, rng, lat, ori, cwp, oa,
                helper>>

\* final_coor is filled orbit by orbit, then Permutation(final_lattice, final_coor, self.PB)
Permute ==
    /\ pc = "good_structure"
    /\ c2d' = [c2d EXCEPT !.final_coor = PermutedCoor(Concat(c2d.coordinates_total), c2d.PB),
                          !.abc = PermutedCell(c2d.abc, c2d.PB)]
    /\ pc' = "permuted"
    /\ SlabUnchanged

\* Add_vacuum(final_lattice, final_coor); self.coordinates = final_coor; self.valid = True
AddVacuum ==
    /\ pc = "permuted"
    /\ c2d' = [c2d EXCEPT !.final_coor = Add_vacuum(c2d.abc[3], c2d.final_coor),
                          !.abc[3] = c2d.abc[3] + vacuum,
                          !.valid = PyTrue]
    /\ pc' = "done_2D"
    /\ SlabUnchanged

NextSlab == Permute \/ AddVacuum

SpecSlab == InitSlab /\ [][NextSlab]_vars

(***************************************************************************)
(* OperationAnalyzer: angles are fractions <<p, q>> of a full turn          *)
(***************************************************************************)
\* the sentinel "irrational" of get_order, which otherwise returns n >= 1
Irrational == 0

\* abs(y) <= tol for x = (n*angle)/(2.*pi), y = x - np.round(x), tol=1e-2
WholeTurns(n, angle) ==
    100 * Min2((n * angle[1]) % angle[2], angle[2] - ((n * angle[1]) % angle[2])) <= angle[2]

\* for n in range(1, 61): ... break
found(angle) == \E n \in 1..60 : WholeTurns(n, angle)

\* the n the loop breaks at
first_n(angle) ==
    CHOOSE n \in 1..60 : WholeTurns(n, angle) /\ \A m \in 1..(n-1) : ~WholeTurns(m, angle)

get_order_mut(angle, rotoinversion) ==
    IF found(angle) THEN first_n(angle) ELSE Irrational

\* get_order(angle, rotoinversion=False, tol=1e-2)
get_order(angle, rotoinversion) ==
    IF found(angle)
    THEN IF rotoinversion /\ first_n(angle) % 2 = 1
         THEN first_n(angle) * 2
         ELSE first_n(angle)
    ELSE Irrational

\* det(m)
det(m) ==
    m[1][1] * (m[2][2] * m[3][3] - m[2][3] * m[3][2])
    - m[1][2] * (m[2][1] * m[3][3] - m[2][3] * m[3][1])
    + m[1][3] * (m[2][1] * m[3][2] - m[2][2] * m[3][1])

Negated(m) == [i \in 1..3 |-> [j \in 1..3 |-> 0 - m[i][j]]]

\* matrix2aa(m) for an orthogonal matrix of determinant 1 with integer
\* entries: theta = arctan2(r, t - 1), t the trace and r the length of the
\* antisymmetric part, which is 0, 1/4, 1/3 or 1/2 of a turn
matrix2aa(m) ==
    IF m = Identity3 THEN <<0, 1>>
    ELSE CASE m[1][1] + m[2][2] + m[3][3] = 1 -> <<1, 4>>
           [] m[1][1] + m[2][2] + m[3][3] = 0 -> <<1, 3>>
           [] m[1][1] + m[2][2] + m[3][3] = -1 -> <<1, 2>>

\* the attributes OperationAnalyzer.__init__ sets from op: the rotation
\* matrix decides, the translation vector is not looked at
OperationAnalyzer(op) ==
    IF ~is_orthogonal(op.rot)
    THEN [type |-> "general", angle |-> <<>>, order |-> None, rotation_order |-> None]
    ELSE IF det(op.rot) > 0
    THEN IF matrix2aa(op.rot)[1] = 0
         THEN [type |-> "identity", angle |-> matrix2aa(op.rot), order |-> 1,
               rotation_order |-> 1]
         ELSE [type |-> "rotation", angle |-> matrix2aa(op.rot),
               order |-> get_order(matrix2aa(op.rot), FALSE),
               rotation_order |-> get_order(matrix2aa(op.rot), FALSE)]
    ELSE IF matrix2aa(Negated(op.rot))[1] = 0
         THEN [type |-> "inversion", angle |-> matrix2aa(Negated(op.rot)), order |-> 2,
               rotation_order |-> 1]
         ELSE [type |-> "rotoinversion", angle |-> matrix2aa(Negated(op.rot)),
               order |-> get_order(matrix2aa(Negated(op.rot)), TRUE),
               rotation_order |-> get_order(matrix2aa(Negated(op.rot)), FALSE)]

\* rotation parts: 1, -1, 2, m, 4, -4, 3, -3 in Cartesian axes, 6 and 3 in
\* hexagonal axes, a shear and the zero matrix
AnalyzedRotations ==
    {Identity3, Negated(Identity3), Diag(-1, -1, 1), Diag(1, 1, -1),
     <<<<0, -1, 0>>, <<1, 0, 0>>, <<0, 0, 1>>>>, <<<<0, 1, 0>>, <<-1, 0, 0>>, <<0, 0, -1>>>>,
     <<<<0, 0, 1>>, <<1, 0, 0>>, <<0, 1, 0>>>>, <<<<0, 0, -1>>, <<-1, 0, 0>>, <<0, -1, 0>>>>,
     <<<<1, -1, 0>>, <<1, 0, 0>>, <<0, 0, 1>>>>, <<<<0, -1, 0>>, <<1, -1, 0>>, <<0, 0, 1>>>>,
     <<<<1, 1, 0>>, <<0, 1, 0>>, <<0, 0, 1>>>>, ZeroMatrix}

\* translation parts: zero, integers, and fractions of a cell edge
AnalyzedTranslations ==
    {<<0, 0, 0>>, <<Grid, 0, 0>>, <<0, -Grid, Grid>>, <<Grid \div 2, 0, 0>>,
     <<0, Grid \div 2, Grid \div 2>>}

InitAnalyzer ==
    /\ sg \in {1}
    /\ species = <<"H">>
    /\ numIons0 = <<1>>
    /\ args = <<max1, max2, max3>>
    /\ pc = "analyzer"
    /\ merge_in = <<>>
    /\ merge_coor = <<>>
    /\ Blank
    /\ NoDriver
    /\ cwp = Unset /\ c2d = Unset /\ helper = Unset
    /\ \E m \in AnalyzedRotations : \E t \in AnalyzedTranslations :
          oa = [op |-> [rot |-> m, tr |-> t], made |-> FALSE, type |-> "",
                angle |-> <<>>, order |-> None, rotation_order |-> None]

\* OperationAnalyzer(op)
Analyze ==
    /\ pc = "analyzer"
    /\ ~oa.made
    /\ oa' = [oa EXCEPT !.made = TRUE,
                        !.type = OperationAnalyzer(oa.op).type,
                        !.angle = OperationAnalyzer(oa.op).angle,
                        !.order = OperationAnalyzer(oa.op).order,
                        !.rotation_order = OperationAnalyzer(oa.op).rotation_order]
    /\ UNCHANGED <<request_vars, pc, numIons, volume, degrees, budgets, loop_vars,
                   result_vars, ghost_vars, merge_vars, main, rng, lat, ori, cwp, c2d,
                   helper>>

NextAnalyzer == Analyze

SpecAnalyzer == InitAnalyzer /\ [][NextAnalyzer]_vars

(***************************************************************************)
(* get_order as __init__ calls it for a rotation and for a rotoinversion    *)
(***************************************************************************)
\* the numbers of equal parts a turn is divided into
TurnParts == {2, 3, 4, 5, 6, 7, 8, 10, 12, 61, 127, 360}

\* angles in (0, pi]
Angles == UNION {{<<p, q>> : p \in 1..(q \div 2)} : q \in TurnParts}

HelperUnchanged ==
    UNCHANGED <<request_vars, pc, numIons, volume, degrees, budgets, loop_vars,
                result_vars, ghost_vars, merge_vars, main, rng, lat, ori, cwp, c2d, oa>>

NoObjects == cwp = Unset /\ c2d = Unset /\ oa = Unset

\* a call of a helper that needs no request
HelperCalled(name) ==
    /\ sg \in {1}
    /\ species = <<"H">>
    /\ numIons0 = <<1>>
    /\ args = <<max1, max2, max3>>
    /\ pc = name
    /\ merge_in = <<>>
    /\ merge_coor = <<>>
    /\ Blank
    /\ NoDriver
    /\ NoObjects

InitOrder ==
    /\ HelperCalled("get_order")
    /\ \E angle \in Angles : \E rotoinversion \in BOOLEAN :
          helper = [angle |-> angle, rotoinversion |-> rotoinversion, returned |-> FALSE,
                    order |-> None, rotation_order |-> None]

\* self.order = get_order(self.angle, rotoinversion=...) and
\* self.rotation_order = get_order(self.angle, rotoinversion=False)
GetOrder ==
    /\ pc = "get_order"
    /\ ~helper.returned
    /\ helper' = [helper EXCEPT !.returned = TRUE,
                                !.order = get_order(helper.angle, helper.rotoinversion),
                                !.rotation_order = get_order(helper.angle, FALSE)]
    /\ HelperUnchanged

NextOrder == GetOrder

SpecOrder == InitOrder /\ [][NextOrder]_vars

(***************************************************************************)
(* are_equal(op1, op2, allow_pbc, rtol=1e-3, atol=1e-3) with its            *)
(* tolerances: entries are integers in millionths                           *)
(***************************************************************************)
Fine == 1000000

\* np.allclose(a, b, rtol, atol) on one entry: |a - b| <= atol + rtol * |b|
allclose(a, b) == Abs(a - b) <= Fine \div 1000 + Abs(b) \div 1000

\* np.round: to the nearest integer, halves to the even one
np_round(x) ==
    IF 2 * (x % Fine) < Fine THEN x - (x % Fine)
    ELSE IF 2 * (x % Fine) > Fine THEN x - (x % Fine) + Fine
    ELSE IF ((x - (x % Fine)) \div Fine) % 2 = 0 THEN x - (x % Fine)
    ELSE x - (x % Fine) + Fine

are_equal_within(op1, op2, allow_pbc) ==
    IF ~(\A i, j \in 1..3 : allclose(op1.rot[i][j], op2.rot[i][j])) THEN FALSE
    ELSE IF ~allow_pbc
    THEN \A i \in 1..3 : allclose(op1.tr[i], op2.tr[i])
    ELSE \A i \in 1..3 : allclose(op1.tr[i] - op2.tr[i], np_round(op1.tr[i] - op2.tr[i]))

\* the identity, a quarter turn about z, a sixth of a turn about z, and a
\* turn about z by a tenth of a degree less
ComparedRotations ==
    {<<<<Fine, 0, 0>>, <<0, Fine, 0>>, <<0, 0, Fine>>>>,
     <<<<0, -Fine, 0>>, <<Fine, 0, 0>>, <<0, 0, Fine>>>>,
     <<<<500000, -866025, 0>>, <<866025, 500000, 0>>, <<0, 0, Fine>>>>,
     <<<<501501, -865157, 0>>, <<865157, 501501, 0>>, <<0, 0, Fine>>>>}

ComparedTranslations ==
    {<<0, 0, 0>>, <<Fine \div 2, 0, 0>>, <<Fine, 0, 0>>, <<Fine + 400, 0, 0>>,
     <<-Fine, 2 * Fine, 0>>}

ComparedOps == {[rot |-> m, tr |-> t] : m \in ComparedRotations, t \in ComparedTranslations}

InitEqual ==
    /\ HelperCalled("are_equal")
    /\ \E op1 \in ComparedOps : \E op2 \in ComparedOps : \E allow_pbc \in BOOLEAN :
          helper = [op1 |-> op1, op2 |-> op2, allow_pbc |-> allow_pbc,
                    called |-> {}, forward |-> FALSE, backward |-> FALSE]

\* are_equal(op1, op2, allow_pbc)
AreEqual ==
    /\ pc = "are_equal"
    /\ "forward" \notin helper.called
    /\ helper' = [helper EXCEPT !.called = @ \cup {"forward"},
                                !.forward = are_equal_within(helper.op1, helper.op2,
                                                             helper.allow_pbc)]
    /\ HelperUnchanged

\* are_equal(op2, op1, allow_pbc)
AreEqualSwapped ==
    /\ pc = "are_equal"
    /\ "backward" \notin helper.called
    /\ helper' = [helper EXCEPT !.called = @ \cup {"backward"},
                                !.backward = are_equal_within(helper.op2, helper.op1,
                                                              helper.allow_pbc)]
    /\ HelperUnchanged

NextEqual == AreEqual \/ AreEqualSwapped

SpecEqual == InitEqual /\ [][NextEqual]_vars

(***************************************************************************)
(* create_matrix as distance calls it                                       *)
(***************************************************************************)
\* differences of fractional coordinates, on the grid
OffsetPoints == {<<x, 0, z>> : x \in {0, 6, 12, 18}, z \in {0, 8, 16}}

InitOffsets ==
    /\ HelperCalled("distance")
    /\ \E PBC \in {None, 1, 2, 3} : \E xyz \in OffsetPoints :
          helper = [PBC |-> PBC, xyz |-> xyz, matrix |-> <<>>, created |-> FALSE,
                    shifted |-> FALSE]

\* matrix = create_matrix(PBC)
CreateMatrix ==
    /\ pc = "distance"
    /\ ~helper.created
    /\ helper' = [helper EXCEPT !.created = TRUE, !.matrix = create_matrix(helper.PBC)]
    /\ HelperUnchanged

\* matrix += xyz, in grid units
ShiftMatrix ==
    /\ pc = "distance"
    /\ helper.created
    /\ ~helper.shifted
    /\ helper' = [helper EXCEPT !.shifted = TRUE,
                     !.matrix = [m \in 1..Len(helper.matrix) |->
                                    VAdd(VScale(Grid, helper.matrix[m]), helper.xyz)]]
    /\ HelperUnchanged

NextOffsets == CreateMatrix \/ ShiftMatrix

SpecOffsets == InitOffsets /\ [][NextOffsets]_vars

(***************************************************************************)
(* letter_from_index and index_from_letter                                  *)
(***************************************************************************)
\* letters = "abcdefghijklmnopqrstuvwxyzA"
letters ==
    <<"a", "b", "c", "d", "e", "f", "g", "h", "i", "j", "k", "l", "m", "n", "o", "p", "q",
      "r", "s", "t", "u", "v", "w", "x", "y", "z", "A">>

\* letters.index(letter): the first place the letter is found at, from 0
letters_index(letter) ==
    (CHOOSE k \in 1..Len(letters) :
        letters[k] = letter /\ \A j \in 1..(k-1) : letters[j] # letter) - 1

letter_from_index_mut(index, g) == letters[index + 1]

\* letters[length - 1 - index], the index counted from 0
letter_from_index(index, g) ==
    letters[(Len(get_wyckoffs(g, FALSE, NoPB)) - 1 - index) + 1]

\* length - 1 - letters.index(letter)
index_from_letter(letter, g) ==
    Len(get_wyckoffs(g, FALSE, NoPB)) - 1 - letters_index(letter)

\* a position of the group is named by its index, or by its letter
InitLetters ==
    /\ sg \in SGs
    /\ species = <<"H">>
    /\ numIons0 = <<1>>
    /\ args = <<max1, max2, max3>>
    /\ pc = "letters"
    /\ merge_in = <<>>
    /\ merge_coor = <<>>
    /\ Blank
    /\ NoDriver
    /\ NoObjects
    /\ \E k \in 1..Len(get_wyckoffs(sg, FALSE, NoPB)) : \E given \in {"index", "letter"} :
          helper = [given |-> given,
                    index |-> IF given = "index" THEN k - 1 ELSE Unset,
                    letter |-> IF given = "letter" THEN letters[k] ELSE "",
                    back |-> FALSE]

\* letter_from_index(index, sg)
LetterFromIndex ==
    /\ pc = "letters"
    /\ helper.index # Unset
    /\ helper.letter = "" \/ (helper.given = "letter" /\ ~helper.back)
    /\ helper' = [helper EXCEPT !.letter = letter_from_index(helper.index, sg),
                                !.back = (helper.given = "letter")]
    /\ HelperUnchanged

\* index_from_letter(letter, sg)
IndexFromLetter ==
    /\ pc = "letters"
    /\ helper.letter # ""
    /\ helper.index = Unset \/ (helper.given = "index" /\ ~helper.back)
    /\ helper' = [helper EXCEPT !.index = index_from_letter(helper.letter, sg),
                                !.back = (helper.given = "index")]
    /\ HelperUnchanged

NextLetters == LetterFromIndex \/ IndexFromLetter

SpecLetters == InitLetters /\ [][NextLetters]_vars

(***************************************************************************)
(* get_wyckoffs(sg, organized=True), jk_from_i and i_from_jk; indices are   *)
(* counted from 0 as in the code                                            *)
(***************************************************************************)
\* num after the loops have passed the groups before j and k items of group j
num_at(j, k, olist) == SumSeq([x \in 1..j |-> Len(olist[x])]) + k

\* jk_from_i(i, olist): [j, k] of the first item at which num == i, else None
jk_from_i(i, olist) ==
    IF \E j \in 0..(Len(olist) - 1) : \E k \in 0..(Len(olist[j + 1]) - 1) :
          num_at(j, k, olist) = i
    THEN CHOOSE jk \in (0..(Len(olist) - 1)) \X (0..MaxOf({Len(olist[x]) : x \in 1..Len(olist)})) :
            /\ jk[2] < Len(olist[jk[1] + 1])
            /\ num_at(jk[1], jk[2], olist) = i
    ELSE <<>>

\* i_from_jk(j, k, olist): num at the item x == j and y == k, else None
i_from_jk(j, k, olist) ==
    IF j < Len(olist) /\ k < Len(olist[j + 1]) THEN num_at(j, k, olist) ELSE None

\* a position of the group is given by its place in the flat list, or by its
\* place in the organized list
InitGroups ==
    /\ sg \in SGs
    /\ species = <<"H">>
    /\ numIons0 = <<1>>
    /\ args = <<max1, max2, max3>>
    /\ pc = "groups"
    /\ merge_in = <<>>
    /\ merge_coor = <<>>
    /\ Blank
    /\ NoDriver
    /\ NoObjects
    /\ \E i \in 0..(Len(wyckoff_list(sg)) - 1) : \E given \in {"i", "jk"} :
          helper = [given |-> given,
                    i |-> IF given = "i" THEN i ELSE Unset,
                    jk |-> IF given = "jk"
                           THEN jk_from_i(i, get_wyckoffs(sg, TRUE, NoPB)) ELSE <<>>,
                    olist |-> <<>>,
                    back |-> FALSE]

\* olist = get_wyckoffs(sg, organized=True)
GetOrganized ==
    /\ pc = "groups"
    /\ helper.olist = <<>>
    /\ helper' = [helper EXCEPT !.olist = get_wyckoffs(sg, TRUE, NoPB)]
    /\ HelperUnchanged

\* jk_from_i(i, olist)
JkFromI ==
    /\ pc = "groups"
    /\ helper.olist # <<>>
    /\ helper.i # Unset
    /\ helper.jk = <<>> \/ (helper.given = "jk" /\ ~helper.back)
    /\ helper' = [helper EXCEPT !.jk = jk_from_i(helper.i, helper.olist),
                                !.back = (helper.given = "jk")]
    /\ HelperUnchanged

\* i_from_jk(j, k, olist)
IFromJk ==
    /\ pc = "groups"
    /\ helper.olist # <<>>
    /\ helper.jk # <<>>
    /\ helper.i = Unset \/ (helper.given = "i" /\ ~helper.back)
    /\ helper' = [helper EXCEPT !.i = i_from_jk(helper.jk[1], helper.jk[2], helper.olist),
                                !.back = (helper.given = "i")]
    /\ HelperUnchanged

NextGroups == GetOrganized \/ JkFromI \/ IFromJk

SpecGroups == InitGroups /\ [][NextGroups]_vars

(***************************************************************************)
(* Properties                                                               *)
(***************************************************************************)
\* the multiplier the specification gives each centring letter
centering_multiplier(g) ==
    LET letter == sg_symbol_from_int_number(g)[1]
    IN  CASE letter = "P" -> 1
          [] letter \in {"A", "C", "I"} -> 2
          [] letter = "R" -> 3
          [] letter = "F" -> 4

\* the space groups whose symbol the model knows
Symbols == SGs \cup {38}

\* the request, scaled to the conventional cell
Scaled == [i \in 1..Len(numIons0) |-> numIons0[i] * centering_multiplier(sg)]

\* the number of atoms of a species in the output
AtomsOf(specie) == Cardinality({k \in 1..Len(sites) : sites[k] = specie})

\* C1: a valid result holds, for every species i, exactly numIons0[i] times the
\* centring multiplier atoms of that species, their total is the sum of the
\* scaled requests, and the inner loop never adds more atoms of a species
\* than its scaled count.
C1_Counts ==
    /\ valid = PyTrue =>
          /\ \A i \in 1..Len(species) : AtomsOf(species[i]) = Scaled[i]
          /\ Len(coordinates) = SumSeq(Scaled)
          /\ Len(sites) = Len(coordinates)
    /\ sp > 0 => numIon_added <= Scaled[sp]

C1_Witness ==
    /\ valid = PyTrue
    /\ Len(species) = 2
    /\ numIons0[1] > 0
    /\ numIons0[2] > 1
    /\ centering_multiplier(sg) > 1

\* C2: in a valid structure every two distinct atoms, of one orbit or of two,
\* of one species or of two, are at a minimum-image distance of at least
\* d_factor * 0.5 * (r_i + r_j).
C2_AllPairsFar ==
    valid = PyTrue =>
        \A k \in 1..Len(coordinates) : \A l \in (k + 1)..Len(coordinates) :
            ~Below(distance(VSub(coordinates[k], coordinates[l]), cell_matrix, None),
                   PairTol(sites[k], sites[l], d_factor))

InUnitCell(coords_) ==
    \A k \in 1..Len(coords_) : \A i \in 1..3 : coords_[k][i] >= 0 /\ coords_[k][i] < Grid

\* C3: every fractional coordinate of a valid structure lies in [0,1): every
\* orbit of the accumulators is wrapped when it is appended and stays so.
C3_InUnitCell ==
    /\ valid = PyTrue => InUnitCell(coordinates)
    /\ \A k \in 1..Len(coordinates_tmp) : InUnitCell(coordinates_tmp[k])
    /\ \A k \in 1..Len(coordinates_total) : InUnitCell(coordinates_total[k])

C3_Witness ==
    /\ valid = PyTrue
    /\ last.outcome = "append"
    /\ last.wrapped

\* the smallest Wyckoff multiplicity of a group
SmallestMultiplicity(g) == MinOf({Len(wyckoff_list(g)[i]) : i \in 1..Len(wyckoff_list(g))})

\* some scaled count is not a multiple of the smallest multiplicity
NotMultiple ==
    \E i \in 1..Len(numIons0) :
        (numIons0[i] * cellsize(sg)) % SmallestMultiplicity(sg) # 0

\* C4: when a scaled count is not a multiple of the smallest Wyckoff
\* multiplicity, check_compatible returns False and generate_crystal ends with
\* valid = False and struct = None, having printed Msg1 once, sampled no
\* lattice and chosen no Wyckoff position.
C4_Incompatible ==
    NotMultiple =>
        /\ pc \in {"init", "volume", "wyckoffs", "generate", "degrees", "done"}
        /\ degrees \in {Unset, PyFalse}
        /\ ~lattice_sampled
        /\ ~wyckoff_chosen
        /\ exc = ""
        /\ pc = "done" => valid = PyFalse /\ struct = "None" /\ msg1_printed = 1
        /\ pc # "done" => valid = Unset /\ msg1_printed = 0

C4_Witness ==
    /\ NotMultiple
    /\ pc = "done"

\* C5: the multiplier is 1 for P, 2 for A, C and I, 3 for R and 4 for F; numIons
\* is numIons0 times that multiplier, and it is computed before the volume
\* estimate and the compatibility check, which both read it.
C5_Scaling ==
    /\ \A g \in Symbols : cellsize(g) = centering_multiplier(g)
    /\ pc = "init" => volume = Unset /\ degrees = Unset
    /\ pc # "init" => numIons = Scaled
    /\ volume # Unset => volume = estimate_volume(Scaled, species, factor)
    /\ degrees # Unset => degrees = check_compatible(wyckoffs, Scaled).result

C5_Witness ==
    /\ pc = "degrees"
    /\ centering_multiplier(sg) = 4
    /\ numIons0 = <<2>>
    /\ numIons = <<8>>

\* C6: no merge failure, unrecognized merged orbit, distance rejection or
\* failed Wyckoff choice raises an exception or ends the run.
C6_NoException ==
    /\ exc = ""
    /\ pc # "raised"

\* a position all of whose points are fixed
FixedWPs(wl) == {i \in 1..Len(wl) : IsFixed(wl[i])}

\* the multiplicities of the positions with a free coordinate
FreeMults(wl) == {Len(wl[i]) : i \in (1..Len(wl)) \ FixedWPs(wl)}

RECURSIVE FreeSum(_, _)
\* n is a sum of multiplicities of mults, each used any number of times
FreeSum(n, mults) == n = 0 \/ \E m \in mults : m <= n /\ FreeSum(n - m, mults)

RECURSIVE SumLen(_, _)
SumLen(wl, S) ==
    IF S = {} THEN 0
    ELSE LET i == CHOOSE j \in S : TRUE IN Len(wl[i]) + SumLen(wl, S \ {i})

\* every count is a sum of multiplicities in which each fixed position is used
\* at most once over all species (owner 0: not used)
Packable(wl, counts) ==
    \E owner \in [FixedWPs(wl) -> 0..Len(counts)] :
        \A k \in 1..Len(counts) :
            /\ SumLen(wl, {i \in FixedWPs(wl) : owner[i] = k}) <= counts[k]
            /\ FreeSum(counts[k] - SumLen(wl, {i \in FixedWPs(wl) : owner[i] = k}),
                       FreeMults(wl))

\* C7: check_compatible returns a result other than False exactly when the
\* scaled counts can be packed with every zero-freedom position used at most once.
C7_ExactPacking ==
    degrees # Unset => (degrees # PyFalse <=> Packable(wyckoff_list(sg), numIons))

\* the orbits of the positions of a group that do not depend on the seed
FixedOrbits(g) ==
    {wrap(orbit(wyckoff_list(g)[i], <<0, 0, 0>>)) : i \in FixedWPs(wyckoff_list(g))}

Occurrences(o, orbits) == Cardinality({k \in 1..Len(orbits) : orbits[k] = o})

\* C8: an orbit on a zero-freedom position that is already in the accumulator
\* is rejected, so no accumulator ever holds such an orbit twice, whatever the
\* species of its occupants.
C8_NoFixedTwice ==
    /\ \A o \in FixedOrbits(sg) :
          /\ Occurrences(o, coordinates_tmp) <= 1
          /\ Occurrences(o, coordinates_total) <= 1
    /\ last.fixed /\ last.dup => last.outcome = "reject"

C8_Witness ==
    /\ last.outcome = "reject"
    /\ last.fixed
    /\ last.dup
    /\ Len(species) = 2
    /\ sp = 2
    /\ wrap(orbit(wyckoff_list(sg)[Len(wyckoff_list(sg))], <<0, 0, 0>>)) = coordinates_tmp[1]

\* C9: with a result of 0 generate_crystal runs with budgets 5/5/5, with a
\* result of True the budgets stay as passed (30/30/30 by default), the loops
\* stay within the budgets, and the result is 0 exactly when the counts are
\* compatible and no position check_compatible subtracted has a non-zero rotation.
C9_Budgets ==
    /\ degrees = 0 /\ pc # "degrees" =>
          budgets = <<5, 5, 5>> /\ struct # "None" /\ msg1_printed = 0
    /\ degrees = PyTrue /\ pc # "degrees" => budgets = args
    /\ degrees = PyTrue /\ args = <<30, 30, 30>> => budgets = <<30, 30, 30>>
    /\ cycle1 <= budgets[1] /\ cycle2 <= budgets[2] /\ cycle3 <= budgets[3]
    /\ degrees # Unset =>
          (degrees = 0 <=>
              /\ check_compatible(wyckoffs, numIons).result # PyFalse
              /\ \A k \in 1..Len(check_compatible(wyckoffs, numIons).used) :
                    IsZeroMatrix(check_compatible(wyckoffs, numIons).used[k][1].rot))

C9_Witness ==
    /\ degrees = 0
    /\ args = <<1, 1, 1>>
    /\ budgets = <<5, 5, 5>>
    /\ cycle3 = 5

\* C10: when merge_coordinate returns an orbit with an index, merging that
\* orbit again with the same lattice, group, tolerance and PBC returns the
\* same coordinates and the same index.
C10_Idempotent ==
    pc = "remerged" =>
        /\ merge_second.exc = ""
        /\ merge_second.coor = merge_first.coor
        /\ merge_second.index = merge_first.index

C10_Witness ==
    /\ pc = "remerged"
    /\ Len(merge_first.coor) < Len(merge_in.coor)

C12_AllAttempts ==
    pc = "main_exit" =>
        /\ main.status = 0
        /\ main.i = main.attempts

\* C13: every draw of a structure generation is taken from one single
\* generator, so two runs with the same inputs that start from the same state
\* of that generator make the same draws.
C13_SameDraws ==
    (\A r \in Runs : Len(rng.drawn[r]) = Len(DrawSteps)) => rng.drawn[1] = rng.drawn[2]

\* a parameter tuple was returned
LatticeReturned == pc = "lattice_done" /\ lat.returned = "para"

\* C14: every tuple generate_lattice returns has a, b, c greater than minvec
\* and less than maxvec = abc/minvec^2, the three angles strictly between
\* minangle and pi - minangle, and every pairwise length ratio below max_ratio;
\* None is returned only after maxattempts rejected samples.
C14_Returned ==
    /\ LatticeReturned =>
          LET p == lat.result
              m == lat.minvec
              abc == p.a * p.b * p.c
          IN  /\ \A x \in {p.a, p.b, p.c} : x > m /\ x * m * m < abc
              /\ \A t \in {p.alpha, p.beta, p.gamma} : minangle < t /\ t < 180 - minangle
              /\ \A x \in {p.a, p.b, p.c} : \A y \in {p.a, p.b, p.c} : x < max_ratio * y
              /\ lat.n < lat.maxattempts
    /\ pc = "lattice_done" /\ lat.returned = "None" => lat.n = lat.maxattempts

\* a tuple returned after a rejected sample
C14_Witness ==
    /\ LatticeReturned
    /\ lat.n > 0

\* C15: a returned lattice obeys the constraints of the family its space-group
\* number selects: 3-15 alpha = gamma = 90; 16-74 all angles 90; 75-142 all
\* angles 90 and a = b; 143-194 alpha = beta = 90, gamma = 120 and a = b;
\* 195-230 all angles 90 and a = b = c; 1-2 unconstrained.
C15_Family ==
    LatticeReturned =>
        LET p == lat.result
        IN  /\ sg \in 3..15 => p.alpha = 90 /\ p.gamma = 90
            /\ sg \in 16..74 => p.alpha = 90 /\ p.beta = 90 /\ p.gamma = 90
            /\ sg \in 75..142 => p.alpha = 90 /\ p.beta = 90 /\ p.gamma = 90 /\ p.a = p.b
            /\ sg \in 143..194 => p.alpha = 90 /\ p.beta = 90 /\ p.gamma = 120 /\ p.a = p.b
            /\ sg \in 195..230 =>
                  p.alpha = 90 /\ p.beta = 90 /\ p.gamma = 90 /\ p.a = p.b /\ p.b = p.c

\* a hexagonal lattice was returned
C15_Witness ==
    /\ LatticeReturned
    /\ sg \in 143..194
    /\ lat.result.gamma = 120

\* C16: an orientation made with a degree-of-freedom count d in {0, 1, 2}
\* stores d and keeps it, so that get_matrix returns the fixed matrix for
\* d = 0, a rotation about the axis for d = 1 and an arbitrary rotation for
\* d = 2; an orientation made by from_constraint has count 1.
C16_KeepsDegrees ==
    ori.made # "" /\ ori.self.has_attrs =>
        /\ ori.self.degrees = ori.d
        /\ ori.made = "from_constraint" => ori.self.degrees = 1
        /\ ori.got # NotCalled /\ ori.angle = "random" =>
              ori.got.kind = CASE ori.d = 0 -> "fixed matrix"
                               [] ori.d = 1 -> "rotation about the axis"
                               [] ori.d = 2 -> "arbitrary rotation"

\* the number choose_wyckoff is called with by the inner loop
Remaining == numIons[sp] - numIon_added

\* C17: choose_wyckoff(wyckoffs, r) returns False or a Wyckoff position of
\* multiplicity at most r; it returns False exactly when no position of the
\* organized list has multiplicity at most r, on both random branches; on the
\* fill-large-first branch the result belongs to the first group whose
\* multiplicity is at most r.
C17_Choice ==
    InnerGuard =>
        \A high \in BOOLEAN :
            /\ \A ops \in choose_wyckoff(wyckoffs, Remaining, high) :
                  /\ Len(ops) <= Remaining
                  /\ \E k \in 1..Len(wyckoffs) : InSeq(ops, wyckoffs[k])
            /\ choose_wyckoff(wyckoffs, Remaining, high) = {}
                  <=> \A k \in 1..Len(wyckoffs) : \A i \in 1..Len(wyckoffs[k]) :
                         Len(wyckoffs[k][i]) > Remaining
            /\ high =>
                  \A ops \in choose_wyckoff(wyckoffs, Remaining, high) :
                     \E k \in 1..Len(wyckoffs) :
                        /\ InSeq(ops, wyckoffs[k])
                        /\ Len(wyckoffs[k][1]) <= Remaining
                        /\ \A j \in 1..(k - 1) : Len(wyckoffs[j][1]) > Remaining

\* the inner loop chooses for a species that has atoms already: the general
\* position no longer fits, a later group does
C17_Witness ==
    /\ InnerGuard
    /\ wyckoff_chosen
    /\ numIon_added > 0
    /\ Len(wyckoffs[1][1]) > Remaining
    /\ choose_wyckoff(wyckoffs, Remaining, TRUE) # {}

\* C18: when a species does not reach its count within max3 inner attempts the
\* middle iteration stops without going on to a later species and the
\* accumulators are reset to empty; every middle iteration starts from empty
\* accumulators, and the output holds only atoms placed in the middle iteration
\* that succeeded.
C18_FailedIteration ==
    [][/\ pc = "species_end" /\ numIon_added # numIons[sp] =>
            pc' = "cycle2_end" /\ sp' = sp /\ numIon_added' = numIon_added
       /\ pc = "cycle2_end" /\ numIon_added # numIons[sp] =>
            pc' = "cycle2" /\ coordinates_total' = <<>> /\ sites_total' = <<>>
       /\ pc = "cycle2" /\ pc' = "cycle3" =>
            /\ coordinates_total = <<>> /\ sites_total = <<>>
            /\ coordinates_tmp' = <<>> /\ sites_tmp' = <<>>
       /\ pc' = "done" /\ valid' = PyTrue =>
            coordinates' = Concat(coordinates_tmp)]_vars

\* a middle iteration in which atoms were placed has failed before its last
\* species, and the accumulators are empty again
C18_Witness ==
    /\ pc = "cycle2"
    /\ cycle2 > 0
    /\ coordinates_tmp # <<>>
    /\ sp < Len(species)
    /\ coordinates_total = <<>>
    /\ sites_total = <<>>

\* C19: when generate_lattice returns None at an outer iteration,
\* generate_crystal makes no further outer iteration and no packing attempt and
\* finishes with valid = False; exhausting the max1 outer iterations without a
\* complete packing finishes with valid = False and the failure message in
\* place of a structure.
C19_OuterLoopFails ==
    [][/\ pc = "cycle1" /\ pc' = "done" =>
            /\ valid' = PyFalse /\ struct' = "Msg2"
            /\ cycle1' = cycle1
            /\ wyckoff_chosen' = wyckoff_chosen
            /\ coordinates' = <<>> /\ sites' = <<>>
       /\ pc = "cycle1" /\ cycle1 >= budgets[1] => pc' = "done"
       /\ pc = "cycle1" /\ cycle1 < budgets[1] => pc' \in {"done", "cycle2"}
       /\ pc # "done"]_vars

\* generate_lattice returned None at an outer iteration after the first
C19_Witness ==
    /\ pc = "done"
    /\ valid = PyFalse
    /\ struct = "Msg2"
    /\ cycle1 > 0
    /\ cycle1 < budgets[1]

\* the positions check_compatible subtracted, one entry for each subtraction
Subtracted == check_compatible(wyckoffs, numIons).used

\* C20: in check_compatible a Wyckoff position without freedom (the rotation
\* matrix of its first operation is zero) is subtracted from the counts at most
\* once over all species of the request; a position with freedom may be
\* subtracted any number of times.
C20_SubtractedOnce ==
    pc = "degrees" =>
        \A k \in 1..Len(Subtracted) :
            IsZeroMatrix(Subtracted[k][1].rot) => Occurrences(Subtracted[k], Subtracted) = 1

\* two species each left with a remainder: a position without freedom was
\* subtracted for the first, a different one for the second, and a position
\* with freedom more than once
C20_Witness ==
    /\ pc = "degrees"
    /\ Len(species) = 2
    /\ degrees # PyFalse
    /\ Cardinality({k \in 1..Len(Subtracted) : IsZeroMatrix(Subtracted[k][1].rot)}) > 1
    /\ \E k \in 1..Len(Subtracted) :
          /\ ~IsZeroMatrix(Subtracted[k][1].rot)
          /\ Occurrences(Subtracted[k], Subtracted) > 1

\* find_short_dist finds a pair within tol in the orbit the iteration starts from
RoundHasPairs ==
    Len(find_short_dist(merge_coor, merge_in.lattice, merge_in.tol).pairs) > 0

\* len(coor) > len(wyckoff[-1][0]) is false: the orbit is no larger than the
\* last (smallest) position of the group
NoWayToMerge == Len(merge_coor) <= Len(wyckoffs[Len(wyckoffs)][1])

\* the centres of the clusters of the orbit the iteration starts from
RoundCenters ==
    centers_of(merge_coor,
               connected_components(find_short_dist(merge_coor, merge_in.lattice,
                                                    merge_in.tol).graph),
               merge_in.lattice, merge_in.PBC, 1, <<>>)

\* check_wyckoff_position(merged, ...) returns False
Unrecognized(centers) ==
    /\ first_exc(centers) = ""
    /\ check_wyckoff_position([k \in 1..Len(centers) |-> centers[k].center], sg)
          = [exc |-> "", index |-> PyFalse]

\* return coor, False with the coordinates the iteration started from
Rejected ==
    /\ pc' = "merge_returned"
    /\ merge_first'.exc = ""
    /\ merge_first'.index = PyFalse
    /\ merge_first'.coor = merge_coor

C22_ReturnsValue ==
    pc \in {"checked", "check_raised"} =>
        /\ cwp.exc = ""
        /\ Cardinality(Possible(cwp.points, sg)) = 0 => cwp.index = PyFalse
        /\ Cardinality(Possible(cwp.points, sg)) = 1 => cwp.index + 1 \in Possible(cwp.points, sg)
        /\ Cardinality(Possible(cwp.points, sg)) > 1 =>
              cwp.index = PyFalse \/ cwp.index + 1 \in Possible(cwp.points, sg)

\* C23: from the same result of merge_coordinate (False or an index, the
\* index 0 of the general position included) and the same result of
\* check_distance, the loop of random_crystal_2D appends the orbit exactly
\* when the loop of random_crystal does.
C23_SameAcceptance ==
    /\ pc = "passes"
    /\ c2d.appended["random_crystal"] # Unset
    /\ c2d.appended["random_crystal_2D"] # Unset
    /\ check_distance(c2d.coordinates_tmp, c2d.coords_toadd, c2d.sites_tmp,
                      c2d.specie, c2d.cell_matrix, None, d_factor)
          = check_distance(c2d.coordinates_tmp, c2d.coords_toadd, c2d.sites_tmp,
                           c2d.specie, c2d.cell_matrix, 3, d_factor)
    => c2d.appended["random_crystal"] = c2d.appended["random_crystal_2D"]

\* C24: in a structure that random_crystal_2D marks valid, every fractional
\* coordinate lies in [0,1) after the axis permutation and the vacuum padding.
C24_PaddedInUnitCell ==
    pc = "done_2D" /\ c2d.valid = PyTrue =>
        \A k \in 1..Len(c2d.final_coor) : \A i \in 1..3 :
            /\ 0 <= c2d.final_coor[k][i][1]
            /\ c2d.final_coor[k][i][1] < c2d.final_coor[k][i][2]

\* C25: OperationAnalyzer gives the type identity only to an operation whose
\* rotation is the identity matrix and whose translation is zero modulo 1,
\* inversion to the rotation -I, rotation to determinant +1 other than I,
\* rotoinversion to determinant -1 other than -I, and general to a rotation
\* that is not orthogonal.
C25_Classification ==
    pc = "analyzer" /\ oa.made =>
        /\ oa.type = "identity" =>
              oa.op.rot = Identity3 /\ \A i \in 1..3 : oa.op.tr[i] % Grid = 0
        /\ oa.op.rot = Negated(Identity3) => oa.type = "inversion"
        /\ is_orthogonal(oa.op.rot) /\ det(oa.op.rot) = 1 /\ oa.op.rot # Identity3
              => oa.type = "rotation"
        /\ is_orthogonal(oa.op.rot) /\ det(oa.op.rot) = -1 /\ oa.op.rot # Negated(Identity3)
              => oa.type = "rotoinversion"
        /\ ~is_orthogonal(oa.op.rot) => oa.type = "general"

\* C26: get_order returns the smallest n in 1..60 for which n*angle/(2*pi) is
\* an integer within tolerance; for a rotoinversion with odd n the order is 2n
\* while rotation_order stays n, for even n both are n; when no n qualifies
\* the result is the sentinel; for the angles 2*pi/k, k in {2, 3, 4, 6}, the
\* rotation order is k.
C26_Order ==
    pc = "get_order" /\ helper.returned =>
        /\ (\A n \in 1..60 : ~WholeTurns(n, helper.angle)) =>
              helper.order = Irrational /\ helper.rotation_order = Irrational
        /\ (\E n \in 1..60 : WholeTurns(n, helper.angle)) =>
              /\ helper.rotation_order \in 1..60
              /\ WholeTurns(helper.rotation_order, helper.angle)
              /\ \A m \in 1..(helper.rotation_order - 1) : ~WholeTurns(m, helper.angle)
              /\ helper.order =
                    IF helper.rotoinversion /\ helper.rotation_order % 2 = 1
                    THEN 2 * helper.rotation_order ELSE helper.rotation_order
        /\ \A k \in {2, 3, 4, 6} : helper.angle = <<1, k>> => helper.rotation_order = k

\* a threefold rotoinversion: order 6, rotation order 3
C26_Witness ==
    /\ pc = "get_order"
    /\ helper.returned
    /\ helper.rotoinversion
    /\ helper.angle = <<1, 3>>
    /\ helper.order = 6
    /\ helper.rotation_order = 3

\* C27: are_equal(op1, op2, allow_pbc=True) is true exactly when the rotation
\* matrices agree within tolerance and every component of the translation
\* difference is an integer within tolerance; are_equal is reflexive and
\* symmetric, and with allow_pbc=False operations whose translations differ
\* by a non-zero integer vector are not equal.
C27_Equivalence ==
    pc = "are_equal" /\ helper.called = {"forward", "backward"} =>
        /\ helper.allow_pbc =>
              helper.forward =
                 (/\ \A i, j \in 1..3 : allclose(helper.op1.rot[i][j], helper.op2.rot[i][j])
                  /\ \A i \in 1..3 : allclose(helper.op1.tr[i] - helper.op2.tr[i],
                                              np_round(helper.op1.tr[i] - helper.op2.tr[i])))
        /\ helper.op1 = helper.op2 => helper.forward
        /\ helper.forward = helper.backward
        /\ (/\ ~helper.allow_pbc
            /\ helper.op1.tr # helper.op2.tr
            /\ \A i \in 1..3 : (helper.op1.tr[i] - helper.op2.tr[i]) % Fine = 0)
              => ~helper.forward

\* C28: create_matrix returns the 27 distinct vectors of {-1,0,1}^3 when no
\* non-periodic axis is given, and for PBC = 1, 2, 3 the 9 vectors whose
\* component on that axis is 0; the zero vector is always among them.
C28_Offsets ==
    pc = "distance" /\ helper.created /\ ~helper.shifted =>
        /\ {helper.matrix[m] : m \in 1..Len(helper.matrix)}
              = {v \in {-1, 0, 1} \X {-1, 0, 1} \X {-1, 0, 1} :
                    helper.PBC \in {1, 2, 3} => v[helper.PBC] = 0}
        /\ Len(helper.matrix) = IF helper.PBC \in {1, 2, 3} THEN 9 ELSE 27
        /\ \E m \in 1..Len(helper.matrix) : helper.matrix[m] = <<0, 0, 0>>

\* the offsets for a slab whose second axis is not periodic
C28_Witness ==
    /\ pc = "distance"
    /\ helper.created
    /\ ~helper.shifted
    /\ helper.PBC = 2
    /\ Len(helper.matrix) = 9
    /\ \A m \in 1..Len(helper.matrix) : helper.matrix[m][2] = 0

\* C29: for a group with L positions letter_from_index maps the last index
\* L-1 to 'a' and index 0 to the L-th letter, and index_from_letter takes the
\* letter of every index in 0..L-1 back to that index.
C29_Letters ==
    [][pc = "letters" /\ helper.given = "index" =>
         /\ helper.letter = "" /\ helper'.letter # "" =>
               /\ helper.index = Len(wyckoff_list(sg)) - 1 => helper'.letter = "a"
               /\ helper.index = 0 => helper'.letter = letters[Len(wyckoff_list(sg))]
         /\ helper'.back => helper'.index = helper.index]_vars

\* the general position of P-1, index 0 of 9: its letter is i, and i gives 0
C29_Witness ==
    /\ pc = "letters"
    /\ sg = 2
    /\ helper.given = "index"
    /\ helper.back
    /\ helper.letter = "i"
    /\ helper.index = 0

\* C30: the groups get_wyckoffs(sg, organized=True) returns are not empty,
\* hold positions of one multiplicity each, differ in multiplicity from the
\* next group, and concatenated in order give the unorganized list; jk_from_i
\* and i_from_jk name the same item of that concatenation.
C30_Organized ==
    pc = "groups" /\ helper.olist # <<>> =>
        /\ \A j \in 1..Len(helper.olist) :
              /\ helper.olist[j] # <<>>
              /\ \A k \in 1..Len(helper.olist[j]) :
                    Len(helper.olist[j][k]) = Len(helper.olist[j][1])
        /\ \A j \in 1..(Len(helper.olist) - 1) :
              Len(helper.olist[j][1]) # Len(helper.olist[j + 1][1])
        /\ Concat(helper.olist) = wyckoff_list(sg)
        /\ helper.i # Unset /\ helper.jk # <<>> =>
              /\ helper.jk[1] + 1 \in 1..Len(helper.olist)
              /\ helper.jk[2] + 1 \in 1..Len(helper.olist[helper.jk[1] + 1])
              /\ helper.olist[helper.jk[1] + 1][helper.jk[2] + 1]
                    = wyckoff_list(sg)[helper.i + 1]

\* position 12d of I23, the third of the flat list, is the second of the
\* second group, and i_from_jk takes that pair back to 2
C30_Witness ==
    /\ pc = "groups"
    /\ sg = 197
    /\ helper.given = "i"
    /\ helper.back
    /\ helper.i = 2
    /\ helper.jk = <<1, 1>>
    /\ Len(helper.olist) = 5

====
